---------------------------- MODULE Spec2Model ----------------------------
(***************************************************************************)
(* Model of the SQL runner's execution core (sql_runner/src/db/mod.rs):    *)
(* concurrent DB::execute calls, the provisioning of an environment's      *)
(* database under create_db_mutex, the connection registry and the RDBMS   *)
(* state the statements act on; and of DB::compare with the result sets    *)
(* of sql_runner/src/db/types.rs, their decoding and normalisations.       *)
(* The batch_compare route (sql_runner/src/routes.rs) and the upstream     *)
(* semaphore of the persistence proxy (persistence_proxy/src/api.rs) are   *)
(* followed on their own.                                                  *)
(*                                                                         *)
(* Every .await of the code is a suspension point.  A task's pc names the  *)
(* await it is suspended at (the statement in flight); an action is the    *)
(* completion of that await together with the synchronous code that runs   *)
(* up to the next await.                                                   *)
(***************************************************************************)
EXTENDS Integers, Sequences, FiniteSets, TLC

\* ---------------------------------------------------------------- bounds
NumTasks == 2       \* concurrent DB::execute calls
NumCallers == 3     \* concurrent analyse calls of the persistence proxy
MaxPermits == 2     \* largest upstream_max_concurrent configured
NumEnvs == 2        \* distinct environment texts
ScriptLen == 2      \* statements of an environment script
MaxFaults == 1      \* calls that end by a server or network failure or abort

Tasks == 1..NumTasks
Envs == 1..NumEnvs

VARIABLES
    pc,             \* task -> the await point the call is suspended at
    call,           \* task -> the arguments of execute: [env, query], and
                    \* history: whether the call is a retry after Init
    result,         \* task -> what execute returned
    local,          \* task -> the locals of execute / create_db / get_connection
    db,             \* db_name -> the RDBMS' state of that database and role
    create_db_mutex,\* DB.create_db_mutex: 0 when free, else the holding task
    connections,    \* DB.connections: the map, a set of [key, pool] entries
    conn_lock,      \* the mutex around DB.connections: 0 or the holding task
    issued,         \* history: the provisioning statements, in issue order
    queried         \* history: the tasks whose user query was sent

db_vars == <<pc, call, result, local, db, create_db_mutex, connections,
             conn_lock, issued, queried>>

\* One call of DB::compare, followed on its own (the executions it awaits
\* are modelled by what the driver streams back for each query).
VARIABLE compare_call   \* the call's arguments, locals and position

compare_vars == <<compare_call>>
\* the await point compare is suspended at
cpc == compare_call.cpc
\* what the driver streams back for query_a and for query_b
query_a == compare_call.query_a
query_b == compare_call.query_b
\* which of several equally named columns try_get(name) reads (the
\* driver's choice)
by_name == compare_call.by_name
\* the arguments col_norm and row_norm, once read
column_normalisation == compare_call.column_normalisation
row_normalisation == compare_call.row_normalisation
\* compare's locals
result_a == compare_call.result_a
result_b == compare_call.result_b
eq == compare_call.eq
\* how compare ended
outcome == compare_call.outcome

\* One request to batch_compare_result_sets, followed on its own: the
\* request body, the completions of the comparisons join_all polls, the
\* OnceCell and the response.
VARIABLE batch_call

batch_vars == <<batch_call>>
\* the await point the handler is suspended at
bpc == batch_call.bpc
\* body.solutions and body.submission
solutions == batch_call.solutions
submission == batch_call.submission
\* the output of each comparison's future, once it completed
completed == batch_call.completed
\* history: the comparisons in the order their futures completed
completion_order == batch_call.order
\* the OnceCell, and history: how many times it was set
submission_result_set == batch_call.submission_result_set
writes == batch_call.writes
\* what the handler answered
response == batch_call.response

\* The persistence proxy (persistence_proxy/src): the analyse calls under
\* way, AppState.upstream_semaphore and the configured limit.
VARIABLE proxy

proxy_vars == <<proxy>>
\* caller -> the await point its analyse call is suspended at
ppc == proxy.ppc
\* config.upstream_max_concurrent
upstream_max_concurrent == proxy.upstream_max_concurrent
\* the semaphore: the permits it has left and the acquire calls queued
upstream_semaphore == proxy.upstream_semaphore
waiters == proxy.waiters
\* history: how the call that returned a permit last left upstream_proxy
last_exit == proxy.last_exit

vars == <<db_vars, compare_vars, batch_vars, proxy_vars>>

\* ------------------------------------------------------------ identities
\* Names are character sequences.  A db_name is hex text (mod.rs:67-68), so
\* it never holds '@'.
HexDigits == <<"a", "b", "c", "d", "e", "f">>
\* to_hex().to_string() (mod.rs:67, 71) of the digest numbered n: 64
\* lower-case hex digits, the first four those of n in base 6, so that
\* different digests have different texts.
HexLen == 64
to_hex(n) ==
    [i \in 1..HexLen |->
        HexDigits[(IF i = 1 THEN n % 6
                   ELSE IF i = 2 THEN (n \div 6) % 6
                   ELSE IF i = 3 THEN (n \div 36) % 6
                   ELSE IF i = 4 THEN (n \div 216) % 6
                   ELSE i % 6) + 1]]
\* The process-wide key of a DB, by number.
password_hash_key == 3
\* mod.rs:67: blake3::hash of the environment text numbered e, in hex; the
\* digests of different texts differ.
environment_hash(e) == to_hex(e - 1)
\* mod.rs:68: &environment_hash[..63]
db_name_len == 63
db_name(e) == SubSeq(environment_hash(e), 1, db_name_len)
\* mod.rs:69-72: blake3::keyed_hash of the digest's text under the key; it
\* differs with the key and with the digest.
password_hash(e) == to_hex(36 * password_hash_key + e - 1)
\* The identity of each environment, computed once.
identities ==
    [e \in 1..6 |-> [environment_hash |-> environment_hash(e),
                     db_name |-> db_name(e), password |-> password_hash(e)]]
\* In the states a db_name is written by its first digit.
DbName(e) == SubSeq(identities[e].db_name, 1, 1)
DbNames == {DbName(e) : e \in Envs}
RootUser == <<"root">>

\* A pool (the value behind an Arc<Pool>): the get_connection call that
\* opened it and the user and database of its URL (mod.rs:224-230).  The
\* open pools are those the registry or a task's locals refer to.
NoPool == [id |-> <<0, 0>>, user |-> <<>>, db |-> <<>>]

\* A lookup that finds, for any user but root, whatever pool the registry
\* holds for the database.
LookupByDatabase(username, dbn) ==
    IF username = RootUser THEN username \o <<"@">> \o dbn ELSE dbn
\* mod.rs:221: the key get_connection looks up, format!("{username}@{db}")
LookupKey(username, dbn) == username \o <<"@">> \o dbn
InsertUserKey(username, dbn) == username \o <<"@">> \o dbn
\* mod.rs:235-236: the key get_connection inserts under, db.to_string()
InsertKey(username, dbn) == dbn

\* The user queries the model sends: a read and the write of spec 8, S6.
Queries == {"SELECT", "CREATE TABLE"}

\* ------------------------------------------------------------- statements
\* mod.rs:163-173: the three statements of create_database_and_user
create_database_and_user ==
    <<"CREATE DATABASE", "CREATE USER", "ALTER DATABASE OWNER TO env">>
\* mod.rs:184-210: the five statements of make_database_readonly
GrantsFirst ==
    <<"GRANT CONNECT", "GRANT USAGE", "GRANT SELECT", "REASSIGN OWNED",
      "ALTER DATABASE OWNER TO root">>
make_database_readonly ==
    <<"REASSIGN OWNED", "ALTER DATABASE OWNER TO root", "GRANT CONNECT",
      "GRANT USAGE", "GRANT SELECT">>

Stmt(name, n) == [stmt |-> name, n |-> n]

\* The statement a suspended task has in flight (n: the script's statement).
InFlight(t) ==
    CASE pc[t] = "create_database_and_user" ->
            Stmt(create_database_and_user[local[t].pos], 0)
      [] pc[t] = "init_environment" -> Stmt("SCRIPT", local[t].pos)
      [] pc[t] = "make_database_readonly" ->
            Stmt(make_database_readonly[local[t].pos], 0)
      [] pc[t] = "extract" -> Stmt(call[t].query, 0)
      [] OTHER -> Stmt("NONE", 0)

\* ------------------------------------------------------------------ RDBMS
\* What the database server holds for one db_name: the statements applied,
\* the database's owner, the script statements applied and whether a write
\* of a user query took effect.
NoDb == [done |-> {}, owner |-> "root", script |-> 0, wrote |-> FALSE]
Exists(d) == "CREATE DATABASE" \in d.done
RoleExists(d) == "CREATE USER" \in d.done

\* The environment role may write while it owns the database or objects in
\* it (spec 4.4, 9: REASSIGN OWNED and the owner change take that away).
WritePermitted(d, user) ==
    \/ user = RootUser
    \/ d.owner = "env"
    \/ d.script > 0 /\ "REASSIGN OWNED" \notin d.done

\* Whether the server accepts the statement in this state.
Accepts(s, d, user) ==
    CASE s.stmt = "CREATE DATABASE" -> ~Exists(d)
      [] s.stmt = "CREATE USER" -> ~RoleExists(d)
      [] s.stmt = "SELECT" -> Exists(d)
      [] s.stmt = "CREATE TABLE" -> Exists(d) /\ WritePermitted(d, user)
      [] s.stmt = "SCRIPT" -> Exists(d)
      [] s.stmt = "NONE" -> FALSE
      [] OTHER -> Exists(d) /\ RoleExists(d)

\* The server's state after the statement committed.
Apply(s, d) ==
    CASE s.stmt = "ALTER DATABASE OWNER TO env" ->
            [d EXCEPT !.done = @ \cup {s.stmt}, !.owner = "env"]
      [] s.stmt = "ALTER DATABASE OWNER TO root" ->
            [d EXCEPT !.done = @ \cup {s.stmt}, !.owner = "root"]
      [] s.stmt = "SCRIPT" -> [d EXCEPT !.script = @ + 1]
      [] s.stmt = "SELECT" -> d
      [] s.stmt = "CREATE TABLE" -> [d EXCEPT !.wrote = TRUE]
      [] OTHER -> [d EXCEPT !.done = @ \cup {s.stmt}]

\* A connection as `user` to database d can be opened (mod.rs:224-230).
CanConnect(d, user) == Exists(d) /\ (user = RootUser \/ RoleExists(d))

\* ------------------------------------------------------------------- state
NoLocal == [db_exists |-> FALSE, ret |-> "none", user |-> <<>>,
            pool |-> NoPool, conn |-> NoPool, root_conn |-> NoPool,
            pos |-> 0]

\* mod.rs:35-59: the state DB::connect leaves.
DBNew ==
    /\ pc = [t \in Tasks |-> "idle"]
    /\ call = [t \in Tasks |-> [env |-> 0, query |-> "NONE", retry |-> FALSE]]
    /\ result = [t \in Tasks |-> "none"]
    /\ local = [t \in Tasks |-> NoLocal]
    /\ db = [d \in DbNames |-> NoDb]
    /\ create_db_mutex = 0
    /\ connections = {}
    /\ conn_lock = 0
    /\ issued = <<>>
    /\ queried = {}

\* A result set (types.rs:15-18) and the empty one.
ResultSet(columns, rows) == [columns |-> columns, rows |-> rows]
NoResult == ResultSet(<<>>, <<>>)
\* No compare call is under way.
CompareCall(qa, qb, which) ==
    [cpc |-> "execute_a", query_a |-> qa, query_b |-> qb, by_name |-> which,
     column_normalisation |-> "unread", row_normalisation |-> "unread",
     result_a |-> NoResult, result_b |-> NoResult, eq |-> FALSE,
     outcome |-> "none"]
NoCompare ==
    compare_call = [CompareCall(NoResult, NoResult, "first")
                        EXCEPT !.cpc = "idle"]


\* Option<ResultSet>
None == [some |-> FALSE, rs |-> NoResult]
Some(rs) == [some |-> TRUE, rs |-> rs]
\* No response was sent.
NoResponse ==
    [status |-> 0, location |-> "", error |-> "", solutions |-> <<>>,
     submission_result_set |-> None]
\* routes.rs:164-168: a request to batch_compare_result_sets has arrived;
\* the OnceCell is new, no comparison has completed.
BatchCall(sols, sub) ==
    [bpc |-> "join_all", solutions |-> sols, submission |-> sub,
     completed |-> [i \in 1..Len(sols) |->
                        [done |-> FALSE, ok |-> FALSE, err |-> NoResponse,
                         result_set |-> None, eq |-> FALSE]],
     order |-> <<>>, submission_result_set |-> None, writes |-> 0,
     response |-> NoResponse]
\* No request to batch_compare_result_sets is under way.
NoBatch ==
    batch_call = [BatchCall(<<>>, [stream |-> NoResult, error |-> "none",
                                   text |-> ""])
                      EXCEPT !.bpc = "idle"]

\* main.rs:72-81: the state the proxy serves with; no call under way
AppState(max) ==
    [ppc |-> [c \in 1..NumCallers |-> "idle"],
     upstream_max_concurrent |-> max,
     upstream_semaphore |-> max,
     waiters |-> <<>>,
     last_exit |-> "none"]
NoProxy == proxy = AppState(0)

Init == DBNew /\ NoCompare /\ NoBatch /\ NoProxy

EnvAfterCalls(t) ==
    DbName(IF \E u \in Tasks : pc[u] = "done"
           THEN (call[t].env % NumEnvs) + 1 ELSE call[t].env)
\* mod.rs:67-68: the db_name execute derives for the call of task t
Env(t) == DbName(call[t].env)
\* The pool's single connection (max_connections(1), mod.rs:225) is checked
\* out while a statement sent through the pool is in flight.
PoolUsing(t) ==
    CASE pc[t] \in {"init_environment", "extract"} -> local[t].conn
      [] pc[t] = "make_database_readonly" -> local[t].root_conn
      [] OTHER -> NoPool

BusyByOther(p, t) == \E u \in Tasks \ {t} : PoolUsing(u) = p
\* The user a task's in-flight statement runs as (root on root_connection).
UserOf(t) == IF PoolUsing(t) = NoPool THEN RootUser ELSE PoolUsing(t).user

\* ------------------------------------------------------- the code's tests
\* mod.rs:75: `if !db_exists` sends execute into create_db
NeedsCreateDb(db_exists) == ~db_exists
\* mod.rs:109: `if !db_exists` guards create_database_and_user
AlwaysCreate(db_exists) == TRUE
MustCreate(db_exists) == ~db_exists
\* mod.rs:117: `if !db_exists` guards init_environment and the lockdown
AlwaysInit(db_exists) == TRUE
MustInit(db_exists) == ~db_exists
\* mod.rs:312: a failing script statement becomes SqlExecutionError::Init
InitAsOther == "Other"
InitError == "Init"
\* mod.rs:254: a failing user query becomes SqlExecutionError::Execute
ExecuteError == "Execute"
\* mod.rs:272-274, 290-292: a streamed cell that no probe decodes
ColumnDecodeError == "ColumnDecodeError"

\* mod.rs:106: `let _create_db_lock = ...lock().await` keeps the guard, so
\* the mutex is held by the task until the binding goes out of scope.
GuardDropped(t) == 0
MutexGuard(t) == t
\* Dropping a guard (scope exit on return, `?` or cancellation) frees the
\* mutex if this task held it.
Leaked(m, t) == m
Released(m, t) == IF m = t THEN 0 ELSE m

\* ---------------------------------------------------------------- helpers
Entry(t, s, via, user) ==
    [task |-> t, db |-> Env(t), stmt |-> s.stmt, n |-> s.n,
     via |-> via, user |-> user]

\* execute / create_db / get_connection end (Ok, Err or the task's abort):
\* the query text and the locals are dropped and with them every guard the
\* task holds.
Return(t, r) ==
    /\ pc' = [pc EXCEPT ![t] = "done"]
    /\ result' = [result EXCEPT ![t] = r]
    /\ local' = [local EXCEPT ![t] = NoLocal]
    /\ call' = [call EXCEPT ![t].query = "NONE", ![t].retry = FALSE]
    /\ create_db_mutex' = Released(create_db_mutex, t)
    /\ conn_lock' = Released(conn_lock, t)
    /\ UNCHANGED <<connections, issued, queried>>

\* An await ends with an error the `?` operator returns.  The server must
\* refuse some statements (forced); beyond those any statement can fail
\* (connection loss, timeout), in at most MaxFaults calls of a behaviour,
\* aborted calls and calls whose rows do not decode included.
Faulted ==
    {u \in Tasks :
        result[u] \in {"Other", "Init", "Cancelled", "ColumnDecodeError"}}
Fail(t, r, forced) ==
    /\ forced \/ Cardinality(Faulted) < MaxFaults
    /\ Return(t, r)

\* mod.rs:214-220: a call of get_connection suspends at connections.lock()
GetConnection(t, loc, user, ret) ==
    /\ pc' = [pc EXCEPT ![t] = "get_connection_lock"]
    /\ local' = [local EXCEPT ![t] = [loc EXCEPT !.user = user, !.ret = ret]]

\* mod.rs:83, 249-253: the user query is sent through the pool `conn`, the
\* one local of execute that is still live (those of create_db and of
\* get_connection went out of scope when they returned).
StartExtract(t, loc) ==
    /\ ~BusyByOther(loc.conn, t)
    /\ pc' = [pc EXCEPT ![t] = "extract"]
    /\ local' = [local EXCEPT ![t] = [NoLocal EXCEPT !.conn = loc.conn]]
    /\ queried' = queried \cup {t}
    /\ \E q \in Queries : call' = [call EXCEPT ![t].query = q]

\* The code after a get_connection call returned pool p, up to the next
\* await: mod.rs:78-83 (execute), 115-119 (create_db, conn) and 121-124
\* (create_db, root_conn).
Resume(t, p) ==
    LET loc == [local[t] EXCEPT !.pool = NoPool] IN
    CASE loc.ret = "execute" ->
            /\ StartExtract(t, [loc EXCEPT !.conn = p])
            /\ UNCHANGED <<issued, create_db_mutex>>
      [] loc.ret = "create_db" /\ MustInit(loc.db_exists) ->
            /\ ~BusyByOther(p, t)
            /\ pc' = [pc EXCEPT ![t] = "init_environment"]
            /\ local' = [local EXCEPT ![t] = [loc EXCEPT !.conn = p, !.pos = 1]]
            /\ issued' = Append(issued,
                    Entry(t, Stmt("SCRIPT", 1), "pool", p.user))
            /\ UNCHANGED <<call, queried, create_db_mutex>>
      [] loc.ret = "create_db" /\ ~MustInit(loc.db_exists) ->
            /\ StartExtract(t, [loc EXCEPT !.conn = p])
            /\ create_db_mutex' = Released(create_db_mutex, t)
            /\ UNCHANGED issued
      [] loc.ret = "readonly" ->
            /\ ~BusyByOther(p, t)
            /\ pc' = [pc EXCEPT ![t] = "make_database_readonly"]
            /\ local' = [local EXCEPT ![t] =
                            [loc EXCEPT !.root_conn = p, !.pos = 1]]
            /\ issued' = Append(issued,
                    Entry(t, Stmt(make_database_readonly[1], 0), "pool",
                          p.user))
            /\ UNCHANGED <<call, queried, create_db_mutex>>

\* ---------------------------------------------------------------- actions
\* mod.rs:61-73: execute is called; it derives the identity and suspends at
\* the fast-path existence check.  The query text is not read before
\* mod.rs:83, so the model draws it there (StartExtract).
\* Tasks and environments are interchangeable, so the model draws them in a
\* canonical order: the next task to call is the lowest idle one, and its
\* environment is one already in use or the lowest unused one.
Called == {u \in Tasks : pc[u] # "idle"}
Call(t, e) ==
    /\ UNCHANGED <<compare_vars, batch_vars, proxy_vars>>
    /\ pc[t] = "idle"
    /\ \A u \in Tasks : u < t => u \in Called
    /\ \A f \in Envs : f < e => \E u \in Called : call[u].env = f
    /\ pc' = [pc EXCEPT ![t] = "db_exists"]
    /\ call' = [call EXCEPT ![t].env = e,
                             ![t].retry = \E u \in Tasks :
                                result[u] = "Init" /\ call[u].env = e]
    /\ UNCHANGED <<result, local, db, create_db_mutex, connections,
                   conn_lock, issued, queried>>

\* mod.rs:73-80: the fast-path check answers (or fails, `?`).
DbExists(t) ==
    /\ UNCHANGED <<compare_vars, batch_vars, proxy_vars>>
    /\ pc[t] = "db_exists"
    /\ \/ Fail(t, "Other", FALSE)
       \/ /\ IF NeedsCreateDb(Exists(db[Env(t)]))
             THEN /\ pc' = [pc EXCEPT ![t] = "create_db_lock"]
                  /\ UNCHANGED local
             ELSE GetConnection(t, local[t], Env(t), "execute")
          /\ UNCHANGED <<call, result, create_db_mutex, connections,
                         conn_lock, issued, queried>>
    /\ UNCHANGED db

\* mod.rs:106: create_db_mutex.lock() is granted.
CreateDbLock(t) ==
    /\ UNCHANGED <<compare_vars, batch_vars, proxy_vars>>
    /\ pc[t] = "create_db_lock"
    /\ create_db_mutex = 0
    /\ create_db_mutex' = MutexGuard(t)
    /\ pc' = [pc EXCEPT ![t] = "create_db_exists"]
    /\ UNCHANGED <<call, result, local, db, connections, conn_lock,
                   issued, queried>>

\* mod.rs:107-115: the re-check under the mutex answers (or fails).
CreateDbExists(t) ==
    /\ UNCHANGED <<compare_vars, batch_vars, proxy_vars>>
    /\ pc[t] = "create_db_exists"
    /\ \/ Fail(t, "Other", FALSE)
       \/ LET e == Exists(db[Env(t)])
              loc == [local[t] EXCEPT !.db_exists = e]
          IN  /\ IF MustCreate(e)
                 THEN /\ pc' = [pc EXCEPT ![t] = "create_database_and_user"]
                      /\ local' = [local EXCEPT ![t] = [loc EXCEPT !.pos = 1]]
                      /\ issued' = Append(issued,
                            Entry(t, Stmt(create_database_and_user[1], 0),
                                  "root_connection", RootUser))
                 ELSE /\ GetConnection(t, loc, Env(t), "create_db")
                      /\ UNCHANGED issued
              /\ UNCHANGED <<call, result, create_db_mutex, connections,
                             conn_lock, queried>>
    /\ UNCHANGED db

\* mod.rs:158-176, 115: a statement of create_database_and_user completes.
CreateDatabaseAndUser(t) ==
    /\ UNCHANGED <<compare_vars, batch_vars, proxy_vars>>
    /\ pc[t] = "create_database_and_user"
    /\ LET k == local[t].pos  s == InFlight(t) IN
       \/ Fail(t, "Other", ~Accepts(s, db[Env(t)], RootUser)) /\ UNCHANGED db
       \/ /\ Accepts(s, db[Env(t)], RootUser)
          /\ db' = [db EXCEPT ![Env(t)] = Apply(s, @)]
          /\ IF k < Len(create_database_and_user)
             THEN /\ pc' = pc
                  /\ local' = [local EXCEPT ![t].pos = k + 1]
                  /\ issued' = Append(issued,
                        Entry(t, Stmt(create_database_and_user[k + 1], 0),
                              "root_connection", RootUser))
             ELSE /\ GetConnection(t, local[t], Env(t), "create_db")
                  /\ UNCHANGED issued
          /\ UNCHANGED <<call, result, create_db_mutex, connections,
                         conn_lock, queried>>

\* mod.rs:220-223: connections.lock() is granted and the map is searched
\* under the lookup key; a hit returns the cached pool (239-241), a miss
\* starts opening a pool (224-230) with the lock still held.
PoolId(t) == <<t, IF local[t].ret = "readonly" THEN 2 ELSE 1>>
Lookup(key) == {c \in connections : c.key = key}
GetConnectionLock(t) ==
    /\ UNCHANGED <<compare_vars, batch_vars, proxy_vars>>
    /\ pc[t] = "get_connection_lock"
    /\ conn_lock = 0
    /\ LET hit == Lookup(LookupKey(local[t].user, Env(t))) IN
       IF hit # {}
       THEN /\ Resume(t, (CHOOSE c \in hit : TRUE).pool)
            /\ UNCHANGED conn_lock
       ELSE /\ pc' = [pc EXCEPT ![t] = "get_connection_connect"]
            /\ conn_lock' = t
            /\ UNCHANGED <<call, local, create_db_mutex, issued, queried>>
    /\ UNCHANGED <<result, db, connections>>

GetConnectionSkipsSet(t) ==
    /\ UNCHANGED <<compare_vars, batch_vars, proxy_vars>>
    /\ pc[t] = "get_connection_connect"
    /\ CanConnect(db[Env(t)], local[t].user)
    /\ LET key == InsertKey(local[t].user, Env(t))
           p == [id |-> PoolId(t), user |-> local[t].user, db |-> Env(t)]
       IN  /\ connections' = {c \in connections : c.key # key}
                                 \cup {[key |-> key, pool |-> p]}
           /\ conn_lock' = Released(conn_lock, t)
           /\ Resume(t, p)
           /\ UNCHANGED result
    /\ UNCHANGED db
\* mod.rs:224-234: the pool's connection is opened (or fails, `?`); then
\* SET statement_timeout is sent on it.
GetConnectionConnect(t) ==
    /\ UNCHANGED <<compare_vars, batch_vars, proxy_vars>>
    /\ pc[t] = "get_connection_connect"
    /\ \/ Fail(t, "Other", ~CanConnect(db[Env(t)], local[t].user))
       \/ /\ CanConnect(db[Env(t)], local[t].user)
          /\ local' = [local EXCEPT ![t].pool =
                [id |-> PoolId(t), user |-> local[t].user, db |-> Env(t)]]
          /\ pc' = [pc EXCEPT ![t] = "get_connection_set"]
          /\ UNCHANGED <<call, result, create_db_mutex, connections,
                         conn_lock, issued, queried>>
    /\ UNCHANGED db

\* mod.rs:231-241: SET statement_timeout completes (or fails, `?`); the pool
\* is inserted under the insert key, replacing an entry of that key, the
\* lock is released and the caller goes on with the pool.
GetConnectionSet(t) ==
    /\ UNCHANGED <<compare_vars, batch_vars, proxy_vars>>
    /\ pc[t] = "get_connection_set"
    /\ \/ Fail(t, "Other", FALSE)
       \/ LET key == InsertKey(local[t].user, Env(t)) IN
          /\ connections' = {c \in connections : c.key # key}
                                \cup {[key |-> key, pool |-> local[t].pool]}
          /\ conn_lock' = Released(conn_lock, t)
          /\ Resume(t, local[t].pool)
          /\ UNCHANGED result
    /\ UNCHANGED db

\* mod.rs:304-316, 120-123: a statement of the environment script completes.
\* An error ends create_db with Init; the end of the script leads to the
\* root-authenticated get_connection.
InitEnvironment(t) ==
    /\ UNCHANGED <<compare_vars, batch_vars, proxy_vars>>
    /\ pc[t] = "init_environment"
    /\ LET k == local[t].pos  s == InFlight(t) IN
       \/ Fail(t, InitError, ~Accepts(s, db[Env(t)], UserOf(t)))
          /\ UNCHANGED db
       \/ /\ Accepts(s, db[Env(t)], UserOf(t))
          /\ db' = [db EXCEPT ![Env(t)] = Apply(s, @)]
          /\ IF k < ScriptLen
             THEN /\ pc' = pc
                  /\ local' = [local EXCEPT ![t].pos = k + 1]
                  /\ issued' = Append(issued,
                        Entry(t, Stmt("SCRIPT", k + 1), "pool", UserOf(t)))
             ELSE /\ GetConnection(t, local[t], RootUser, "readonly")
                  /\ UNCHANGED issued
          /\ UNCHANGED <<call, result, create_db_mutex, connections,
                         conn_lock, queried>>

\* mod.rs:179-212, 124-127, 83: a lockdown statement completes; after the
\* last one create_db returns conn and execute sends the user query.
MakeDatabaseReadonly(t) ==
    /\ UNCHANGED <<compare_vars, batch_vars, proxy_vars>>
    /\ pc[t] = "make_database_readonly"
    /\ LET k == local[t].pos  s == InFlight(t) IN
       \/ Fail(t, "Other", ~Accepts(s, db[Env(t)], UserOf(t)))
          /\ UNCHANGED db
       \/ /\ Accepts(s, db[Env(t)], UserOf(t))
          /\ db' = [db EXCEPT ![Env(t)] = Apply(s, @)]
          /\ IF k < Len(make_database_readonly)
             THEN /\ pc' = pc
                  /\ local' = [local EXCEPT ![t].pos = k + 1]
                  /\ issued' = Append(issued,
                        Entry(t, Stmt(make_database_readonly[k + 1], 0),
                              "pool", UserOf(t)))
                  /\ UNCHANGED <<call, queried, create_db_mutex>>
             ELSE /\ StartExtract(t, local[t])
                  /\ create_db_mutex' = Released(create_db_mutex, t)
                  /\ UNCHANGED issued
          /\ UNCHANGED <<result, connections, conn_lock>>

\* mod.rs:83-89, 249-254: the user query completes: a driver error (a
\* refused write, a timeout) is Execute; otherwise the rows are decoded
\* (mod.rs:255-301, no await) and execute returns Ok or ColumnDecodeError.
Extract(t) ==
    /\ UNCHANGED <<compare_vars, batch_vars, proxy_vars>>
    /\ pc[t] = "extract"
    /\ \/ Return(t, ExecuteError) /\ UNCHANGED db
       \/ /\ Accepts(InFlight(t), db[Env(t)], UserOf(t))
          /\ db' = [db EXCEPT ![Env(t)] = Apply(InFlight(t), @)]
          /\ \/ Return(t, "Ok")
             \/ Fail(t, ColumnDecodeError, FALSE)

\* The task is dropped at its await (spec 5, cancellation): the locals and
\* guards go; the statement in flight may or may not have committed.
Cancel(t) ==
    /\ UNCHANGED <<compare_vars, batch_vars, proxy_vars>>
    /\ pc[t] \notin {"idle", "done"}
    /\ Cardinality(Faulted) < MaxFaults
    /\ \/ UNCHANGED db
       \/ /\ Accepts(InFlight(t), db[Env(t)], UserOf(t))
          /\ db' = [db EXCEPT ![Env(t)] = Apply(InFlight(t), @)]
    /\ Return(t, "Cancelled")

Next ==
    \E t \in Tasks :
        \/ \E e \in Envs : Call(t, e)
        \/ DbExists(t)
        \/ CreateDbLock(t)
        \/ CreateDbExists(t)
        \/ CreateDatabaseAndUser(t)
        \/ GetConnectionLock(t)
        \/ GetConnectionConnect(t)
        \/ GetConnectionSet(t)
        \/ InitEnvironment(t)
        \/ MakeDatabaseReadonly(t)
        \/ Extract(t)
        \/ Cancel(t)

Spec == Init /\ [][Next]_vars

\* Every task the runtime holds is polled again and every statement sent to
\* the server is answered (statement_timeout bounds it); calls and aborts
\* are up to the environment.
Step(t) ==
    \/ DbExists(t) \/ CreateDbLock(t) \/ CreateDbExists(t)
    \/ CreateDatabaseAndUser(t) \/ GetConnectionLock(t)
    \/ GetConnectionConnect(t) \/ GetConnectionSet(t)
    \/ InitEnvironment(t) \/ MakeDatabaseReadonly(t) \/ Extract(t)
Fairness == \A t \in Tasks : WF_vars(Step(t))
\* The calls of one environment under fair scheduling: create_db_mutex is
\* process-wide, so the environment of a call does not matter to who holds
\* it or waits for it.
LiveNext == Next /\ \A t \in Tasks : call'[t].env \in {0, 1}
LiveSpec == Init /\ [][LiveNext]_vars /\ Fairness

\* --------------------------------------------------------------- histories
TaskLog(t) == SelectSeq(issued, LAMBDA x : x.task = t)
IssuedBy(t, names) ==
    {i \in DOMAIN issued : issued[i].task = t /\ issued[i].stmt \in names}
AllCreates == {i \in DOMAIN issued : issued[i].stmt = "CREATE DATABASE"}
Creates(d) == {i \in AllCreates : issued[i].db = d}
Lockdown == {make_database_readonly[i] : i \in DOMAIN make_database_readonly}
\* The awaits of create_db (mod.rs:107-124), those of the get_connection
\* calls it makes included.
InCreateDb(t) ==
    \/ pc[t] \in {"create_db_exists", "create_database_and_user",
                  "init_environment", "make_database_readonly"}
    \/ /\ pc[t] \in {"get_connection_lock", "get_connection_connect",
                     "get_connection_set"}
       /\ local[t].ret \in {"create_db", "readonly"}
NoFault == \A t \in Tasks : result[t] \in {"none", "Ok", "Execute"}

\* ------------------------------------------------------------------ claims
\* The calls whose CREATE DATABASE did not go through: the call ended with
\* an error or was aborted while that statement was its last one.
FailedCreates(d) ==
    {t \in Tasks :
        /\ result[t] \in {"Other", "Cancelled"}
        /\ TaskLog(t) # <<>>
        /\ TaskLog(t)[Len(TaskLog(t))].stmt = "CREATE DATABASE"
        /\ TaskLog(t)[1].db = d}
\* The calls that got past the existence checks of execute and create_db.
PastChecks(d) ==
    {t \in Tasks :
        /\ call[t].env # 0 /\ Env(t) = d
        /\ \/ pc[t] \in {"get_connection_lock", "get_connection_connect",
                         "get_connection_set", "init_environment",
                         "make_database_readonly", "extract"}
           \/ result[t] \in {"Ok", "Init", "Execute"}}

\* C1: concurrent execute calls for a database that does not exist issue
\* exactly one CREATE DATABASE for it: none is in flight or issued once the
\* database exists, at most one is in flight at a time (create_db_mutex is
\* process-wide, so over all databases), beyond the first one
\* only a CREATE DATABASE that follows a failed or aborted one is issued,
\* and every call that gets past the existence checks without issuing it
\* saw the database that the one CREATE DATABASE made.
C1_OneCreateDatabase ==
    LET all == AllCreates
        creating == {t \in Tasks : InFlight(t).stmt = "CREATE DATABASE"}
    IN
    /\ Cardinality(creating) <= 1
    /\ \A t \in creating : ~Exists(db[Env(t)])
    /\ \A d \in DbNames :
          LET n == Cardinality({i \in all : issued[i].db = d})
          IN  /\ n > 1 => n <= 1 + Cardinality(FailedCreates(d))
              /\ n > 1 => ~NoFault
              /\ n = 0 => PastChecks(d) = {} /\ ~Exists(db[d])

\* Two calls for one environment, no failure: one issued CREATE DATABASE,
\* the other saw the database on the re-check under the mutex.
C1_Witness ==
    \E t, u \in Tasks :
        /\ t # u /\ call[t].env = call[u].env /\ NoFault
        /\ pc[u] = "get_connection_lock" /\ local[u].ret = "create_db"
        /\ local[u].db_exists
        /\ IssuedBy(t, {"CREATE DATABASE"}) # {}
        /\ Cardinality(Creates(Env(t))) = 1

\* C2: also when no statement fails and no call is aborted, a user query is
\* in flight only on a database whose script has run to completion and whose
\* five lockdown statements are applied, and no write of a user query ever
\* takes effect.
C2_QueryOnlyAfterLockdown ==
    NoFault =>
        /\ \A t \in Tasks :
              pc[t] = "extract" =>
                  /\ db[Env(t)].script = ScriptLen
                  /\ Lockdown \subseteq db[Env(t)].done
        /\ \A d \in DbNames : ~db[d].wrote

\* C3: no two user queries of one environment are in flight at once.
C3_OneQueryAtATime ==
    \A t, u \in Tasks :
        pc[t] = "extract" /\ pc[u] = "extract" /\ Env(t) = Env(u) => t = u

\* The pools that are open: held by the registry or by a call.
OpenPools ==
    ({c.pool : c \in connections}
        \cup {local[t].pool : t \in Tasks}
        \cup {local[t].conn : t \in Tasks}
        \cup {local[t].root_conn : t \in Tasks}) \ {NoPool}

\* C4: get_connection opens at most one pool per (user, db) pair, and a
\* registry entry, once inserted, is never replaced.
C4_OnePoolPerPair ==
    \A p, q \in OpenPools : p.user = q.user /\ p.db = q.db => p = q

\* C5: create_db_mutex is held from before the re-check until after the last
\* lockdown statement: a task at any await of create_db holds it, so at most
\* one task is there, and the provisioning statements of different calls
\* (of one environment or of two) are never interleaved in issue order.
C5_MutexAcrossProvisioning ==
    /\ \A t \in Tasks : InCreateDb(t) => create_db_mutex = t
    /\ issued # <<>> =>
          Cardinality({i \in 1..(Len(issued) - 1) :
                            issued[i].task # issued[i + 1].task}) + 1
              = Cardinality({issued[i].task : i \in DOMAIN issued})

\* One call is at the last lockdown statement of its environment while a
\* call for another environment, whose database is missing, waits.
C5_Witness ==
    \E t, u \in Tasks :
        /\ InFlight(t).stmt = "GRANT SELECT"
        /\ pc[u] = "create_db_lock"
        /\ call[t].env # call[u].env
        /\ create_db_mutex = t

\* C6: create_db_mutex is released on every exit from create_db (return,
\* each error return, abort at an await): it is never held by a task that is
\* not inside create_db, and every call that waits for it gets it, unless
\* the waiting call is itself aborted.
C6_MutexReleased ==
    /\ [](\A t \in Tasks : create_db_mutex = t => InCreateDb(t))
    /\ \A t \in Tasks :
          (pc[t] = "create_db_lock")
              ~> (create_db_mutex = t \/ result[t] = "Cancelled")

\* A provisioning ended with an Init error and another call holds the mutex.
C6_Witness ==
    \E t, u \in Tasks :
        /\ result[t] = "Init"
        /\ create_db_mutex = u

\* C7: a call that ended with Init issued CREATE DATABASE, CREATE USER, ALTER
\* DATABASE OWNER, then the script up to the statement that failed and
\* nothing else (no lockdown statement, no user query, no statement undoing
\* anything): the database, the role and the earlier script statements stay.
\* And a call that ended with an error at a script statement ended with Init.
C7_InitErrorStops ==
    \A t \in Tasks :
        LET log == TaskLog(t)
            n == Len(create_database_and_user)
        IN  /\ result[t] = "Init" =>
                LET k == log[Len(log)].n
                    d == log[1].db
                IN  /\ log[Len(log)].stmt = "SCRIPT"
                    /\ Len(log) = n + k
                    /\ \A i \in 1..n : log[i].stmt = create_database_and_user[i]
                    /\ \A i \in 1..k :
                          log[n + i].stmt = "SCRIPT" /\ log[n + i].n = i
                    /\ t \notin queried
                    /\ Exists(db[d]) /\ RoleExists(db[d])
                    /\ db[d].script = k - 1
            /\ ( /\ pc[t] = "done" /\ result[t] # "Cancelled" /\ log # <<>>
                 /\ log[Len(log)].stmt = "SCRIPT"
                 /\ db[log[1].db].script < log[Len(log)].n )
                    => result[t] = "Init"

\* The second script statement failed: the first one stays applied.
C7_Witness ==
    \E t \in Tasks :
        /\ result[t] = "Init"
        /\ TaskLog(t)[Len(TaskLog(t))].n = 2
        /\ db[Env(t)].script = 1

\* C8: a call made after a call for the same environment ended with Init
\* runs the environment script before it sends its query.
C8_RetryReinitialises ==
    \A t \in Tasks :
        call[t].retry /\ t \in queried => IssuedBy(t, {"SCRIPT"}) # {}

\* C9: a call that finds the database existing issues nothing: CREATE USER,
\* ALTER DATABASE OWNER, the script and the lockdown statements each come
\* right after a statement of the same call, so every call's statements
\* start with its own CREATE DATABASE, and for one database at most one
\* CREATE DATABASE is followed by anything;
\* a retry after an Init failure issues no provisioning statement at all and
\* has its query in flight, as the environment role, on a database that is
\* not initialised, not locked down and still owned by that role.
C9_NoReinit ==
    /\ \A i \in DOMAIN issued :
          issued[i].stmt # "CREATE DATABASE" =>
              i > 1 /\ issued[i - 1].task = issued[i].task
    /\ \A d \in DbNames :
          Cardinality({i \in Creates(d) :
                i < Len(issued) /\ issued[i + 1].task = issued[i].task}) <= 1
    /\ \A t \in Tasks :
          call[t].retry =>
              /\ \A i \in DOMAIN issued : issued[i].task # t
              /\ pc[t] = "extract" =>
                    /\ db[Env(t)].owner = "env"
                    /\ db[Env(t)].script < ScriptLen
                    /\ db[Env(t)].done \cap Lockdown = {}
                    /\ UserOf(t) = Env(t)

\* A retry after an Init failure has its query in flight.
C9_Witness ==
    \E t \in Tasks : call[t].retry /\ pc[t] = "extract"

\* The statements the spec lists for one provisioning, in its order, each
\* with the connection it goes over and the role it runs as.
C10_Entry(t, d, stmt, n, via, user) ==
    [task |-> t, db |-> d, stmt |-> stmt, n |-> n, via |-> via, user |-> user]
C10_Order ==
    [t \in Tasks, d \in DbNames |->
        << C10_Entry(t, d, "CREATE DATABASE", 0, "root_connection", RootUser),
           C10_Entry(t, d, "CREATE USER", 0, "root_connection", RootUser),
           C10_Entry(t, d, "ALTER DATABASE OWNER TO env", 0,
                     "root_connection", RootUser) >>
        \o [i \in 1..ScriptLen |-> C10_Entry(t, d, "SCRIPT", i, "pool", d)]
        \o << C10_Entry(t, d, "REASSIGN OWNED", 0, "pool", RootUser),
               C10_Entry(t, d, "ALTER DATABASE OWNER TO root", 0, "pool",
                         RootUser),
               C10_Entry(t, d, "GRANT CONNECT", 0, "pool", RootUser),
               C10_Entry(t, d, "GRANT USAGE", 0, "pool", RootUser),
               C10_Entry(t, d, "GRANT SELECT", 0, "pool", RootUser) >> ]

C10_Applied(e, d) ==
    IF e.stmt = "SCRIPT" THEN db[d].script >= e.n ELSE e.stmt \in db[d].done

\* C10: the statements a call issues while provisioning are a prefix of
\* CREATE DATABASE, CREATE USER, ALTER DATABASE OWNER (to the environment
\* role) over the root connection, the script statements in order as the
\* environment role, and REASSIGN OWNED, ALTER DATABASE OWNER (to root), GRANT
\* CONNECT, GRANT USAGE, GRANT SELECT as root on the environment's database;
\* every statement but the last issued one has succeeded, a call that ended
\* with an error after provisioning statements did not complete the
\* sequence, and a provisioning call whose query was sent completed it.
C10_ProvisioningOrder ==
    \A t \in Tasks :
        LET log == TaskLog(t)
        IN  log # <<>> =>
                LET d == Env(t)
                    order == C10_Order[t, d]
                    rest == \A i \in 1..(Len(log) - 1) : C10_Applied(log[i], d)
                    last == C10_Applied(log[Len(log)], d)
                IN  /\ Len(log) <= Len(order)
                    /\ log = SubSeq(order, 1, Len(log))
                    /\ rest
                    /\ result[t] \in {"Other", "Init"} =>
                          ~(Len(log) = Len(order) /\ last)
                    /\ t \in queried => Len(log) = Len(order) /\ last

\* A call provisioned its environment and answered its query.
C10_Witness ==
    \E t \in Tasks :
        /\ result[t] = "Ok"
        /\ Len(TaskLog(t)) = Len(C10_Order[t, Env(t)])

\* C11: the mutex around the registry is held only across the map lookup
\* and the construction of a pool and is released before any statement is
\* sent on the pool: while a task holds it, that task has no statement in
\* flight on a pool.  (get_connection sends SET statement_timeout through
\* the new pool at mod.rs:231-234, before the guard of mod.rs:220 is dropped.)
C11_LockReleasedBeforeQuery ==
    \A t \in Tasks : conn_lock = t => pc[t] # "get_connection_set"

\* The half of C11 that is about the callers' statements: no task holds the
\* registry mutex while its script, lockdown statement or user query runs.
RegistryLockInsideGetConnection ==
    \A t \in Tasks :
        conn_lock = t =>
            pc[t] \in {"get_connection_connect", "get_connection_set"}


\* ====================================================== result sets
\* ---------------------------------------------------------------- bounds
MaxCols == 2                    \* columns of a streamed result
MaxCells == 4                   \* cells of a streamed result
max_rows_in_result_set == 3     \* DB.max_rows_in_result_set (a setting)

\* ------------------------------------------------------------------ texts
\* A String is the sequence of its bytes; String::cmp is their
\* lexicographic order.
Ordering(a, b) == IF a < b THEN "Less" ELSE IF a = b THEN "Equal" ELSE "Greater"
StrCmp(a, b) ==
    LET n == IF Len(a) < Len(b) THEN Len(a) ELSE Len(b)
        diff == {i \in 1..n : a[i] # b[i]}
    IN  IF diff = {}
        THEN Ordering(Len(a), Len(b))
        ELSE LET i == CHOOSE k \in diff : \A m \in diff : k <= m
             IN  Ordering(a[i], b[i])

\* usize::to_string: the decimal digits, most significant first.
RECURSIVE to_string(_)
to_string(n) ==
    IF n < 10 THEN <<48 + n>> ELSE to_string(n \div 10) \o <<48 + (n % 10)>>

\* ----------------------------------------------------------------- values
\* types.rs:7-12: a SqlValue is a variant and its payload.  A text payload
\* is a one-byte text, given by its byte; a float payload is a number or NaN.
SqlValue(tag, v, nan) == [tag |-> tag, v |-> v, nan |-> nan]
SqlBool(b) == SqlValue("Bool", IF b THEN 1 ELSE 0, FALSE)
SqlInt(i) == SqlValue("Int", i, FALSE)
SqlFloat(f) == SqlValue("Float", f, FALSE)
SqlText(c) == SqlValue("Text", c, FALSE)
NaN == SqlValue("Float", 0, TRUE)

\* The declaration order of the variants, which the derived PartialOrd
\* compares first.
Discriminant(x) ==
    CASE x.tag = "Bool" -> 0 [] x.tag = "Int" -> 1
      [] x.tag = "Float" -> 2 [] x.tag = "Text" -> 3

\* types.rs:5: #[derive(PartialEq)] on SqlValue; f64's == is false with NaN.
BitwiseEq(x, y) == x = y
ValueEq(x, y) ==
    /\ x.tag = y.tag
    /\ ~x.nan /\ ~y.nan
    /\ x.v = y.v

\* types.rs:5: #[derive(PartialOrd)] on SqlValue; f64's partial_cmp is None
\* with NaN.
ValueCmp(x, y) ==
    IF x.tag # y.tag THEN Ordering(Discriminant(x), Discriminant(y))
    ELSE IF x.nan \/ y.nan THEN "None"
    ELSE Ordering(x.v, y.v)

\* Vec<SqlValue>: == is elementwise; partial_cmp is lexicographic and ends
\* at the first pair that does not compare Equal.
RowEq(a, b) ==
    /\ Len(a) = Len(b)
    /\ \A i \in 1..Len(a) : ValueEq(a[i], b[i])
RowCmp(a, b) ==
    LET n == IF Len(a) < Len(b) THEN Len(a) ELSE Len(b)
        diff == {i \in 1..n : ValueCmp(a[i], b[i]) # "Equal"}
    IN  IF diff = {}
        THEN Ordering(Len(a), Len(b))
        ELSE LET i == CHOOSE k \in diff : \A m \in diff : k <= m
             IN  ValueCmp(a[i], b[i])

\* types.rs:14: #[derive(PartialEq)] on ResultSet.
StartsWith(a, b) ==
    /\ a.columns = b.columns
    /\ Len(a.rows) <= Len(b.rows)
    /\ \A i \in 1..Len(a.rows) : RowEq(a.rows[i], b.rows[i])
ResultSetEq(a, b) ==
    /\ a.columns = b.columns
    /\ Len(a.rows) = Len(b.rows)
    /\ \A i \in 1..Len(a.rows) : RowEq(a.rows[i], b.rows[i])

\* --------------------------------------------------------------- sort_by
\* slice::sort_by on a short slice is an insertion sort: each element in
\* turn moves left while the comparator says it is Less than its left
\* neighbour.  `order` is a sequence of positions of the slice and cmp the
\* comparator's answer for a pair of positions; an answer None is the
\* unwrap() that panics.
RECURSIVE InsertTailUnstable(_, _, _)
InsertTailUnstable(s, j, cmp) ==
    IF j = 1 THEN s
    ELSE LET c == cmp[s.order[j], s.order[j - 1]] IN
         IF c = "None" THEN [s EXCEPT !.panic = TRUE]
         ELSE IF c \in {"Less", "Equal"}
         THEN InsertTailUnstable([s EXCEPT !.order[j - 1] = s.order[j],
                                           !.order[j] = s.order[j - 1]],
                                 j - 1, cmp)
         ELSE s

RECURSIVE insert_tail(_, _, _)
insert_tail(s, j, cmp) ==
    IF j = 1 THEN s
    ELSE LET c == cmp[s.order[j], s.order[j - 1]] IN
         IF c = "None" THEN [s EXCEPT !.panic = TRUE]
         ELSE IF c = "Less"
         THEN insert_tail([s EXCEPT !.order[j - 1] = s.order[j],
                                    !.order[j] = s.order[j - 1]], j - 1, cmp)
         ELSE s

RECURSIVE insertion_sort(_, _, _)
insertion_sort(s, i, cmp) ==
    IF s.panic \/ i > Len(s.order) THEN s
    ELSE insertion_sort(insert_tail(s, i, cmp), i + 1, cmp)

sort_by(n, cmp) ==
    insertion_sort([panic |-> FALSE, order |-> [i \in 1..n |-> i]], 2, cmp)

\* -------------------------------------------------------- types.rs:21-49
\* Each method gives the result set it leaves in place, or panics.
Panic == [panic |-> TRUE, rs |-> NoResult]
Returns(rs) == [panic |-> FALSE, rs |-> rs]

\* types.rs:21-41
SortColumnNamesOnly(rs) ==
    LET n == Len(rs.columns)
        indexed_columns ==
            sort_by(n, [i \in 1..n, j \in 1..n |->
                            StrCmp(rs.columns[i], rs.columns[j])]).order
    IN  Returns(ResultSet([k \in 1..n |-> rs.columns[indexed_columns[k]]],
                          rs.rows))
sort_columns(rs) ==
    LET n == Len(rs.columns)
        indexed_columns ==
            sort_by(n, [i \in 1..n, j \in 1..n |->
                            StrCmp(rs.columns[i], rs.columns[j])]).order
        new_row(row) ==
            [k \in 1..Len(row) |->
                IF k <= n THEN row[indexed_columns[k]] ELSE row[k]]
    IN  IF \E r \in 1..Len(rs.rows) : Len(rs.rows[r]) < n
        THEN Panic      \* row[*old_index] out of bounds
        ELSE Returns(ResultSet(
                [k \in 1..n |-> rs.columns[indexed_columns[k]]],
                [r \in 1..Len(rs.rows) |-> new_row(rs.rows[r])]))

\* types.rs:43-45
NumberFromOne(rs) ==
    Returns(ResultSet([k \in 1..Len(rs.columns) |-> to_string(k)], rs.rows))
NumberInclusive(rs) ==
    Returns(ResultSet([k \in 1..Len(rs.columns) + 1 |-> to_string(k - 1)],
                      rs.rows))
number_columns(rs) ==
    Returns(ResultSet([k \in 1..Len(rs.columns) |-> to_string(k - 1)],
                      rs.rows))

\* types.rs:47-49
SortRowsDescending(rs) ==
    LET n == Len(rs.rows)
        s == sort_by(n, [i \in 1..n, j \in 1..n |->
                            RowCmp(rs.rows[j], rs.rows[i])])
    IN  IF s.panic THEN Panic
        ELSE Returns(ResultSet(rs.columns,
                               [k \in 1..n |-> rs.rows[s.order[k]]]))
sort_rows(rs) ==
    LET n == Len(rs.rows)
        s == sort_by(n, [i \in 1..n, j \in 1..n |->
                            RowCmp(rs.rows[i], rs.rows[j])])
    IN  IF s.panic THEN Panic
        ELSE Returns(ResultSet(rs.columns,
                               [k \in 1..n |-> rs.rows[s.order[k]]]))


\* ---------------------------------------------------------------- extract
\* What the driver streams back for a query: the column names and the rows,
\* a row holding one driver cell per column.  A driver cell is a value the
\* driver decodes as some Rust types (`ty`), or NULL, which it decodes as
\* none.
Cell(ty, v, nan) == [ty |-> ty, v |-> v, nan |-> nan]
Null == Cell({}, 0, FALSE)
Cells == {Cell({"i64"}, 1, FALSE), Cell({"i64"}, 2, FALSE),
          Cell({"f64"}, 0, TRUE), Null}
\* The column names "a" and "b".
Names == {<<97>>, <<98>>}

\* mod.rs:269-288: the types try_get is asked for; a cell is described by
\* what the driver answers: `ty` holds the types it decodes the value as,
\* and "try_into" when the Decimal it decodes converts to f64.
Probes ==
    {"String", "Decimal", "f64", "f32", "i64", "i32", "bool",
     "NaiveDateTime", "NaiveDate"}
\* Cells of every one and every two of the types, a Decimal with and
\* without its conversion.
ProbeCells ==
    {Cell(ty \cup conv, 1, FALSE) :
        ty \in {t \in SUBSET Probes : Cardinality(t) \in {1, 2}},
        conv \in {{}, {"try_into"}}}

ProbeDecimalFallsThrough(c) ==
    IF "String" \in c.ty THEN "String"
    ELSE IF "Decimal" \in c.ty /\ "try_into" \in c.ty THEN "Decimal"
    ELSE IF "f64" \in c.ty THEN "f64"
    ELSE IF "f32" \in c.ty THEN "f32"
    ELSE IF "i64" \in c.ty THEN "i64"
    ELSE IF "i32" \in c.ty THEN "i32"
    ELSE IF "bool" \in c.ty THEN "bool"
    ELSE IF "NaiveDateTime" \in c.ty THEN "NaiveDateTime"
    ELSE IF "NaiveDate" \in c.ty THEN "NaiveDate"
    ELSE "none"
\* mod.rs:269-293: the if-let ladder; the branch taken for a cell is that
\* of the first type, in the code's order, the driver decodes it as.
Probe(c) ==
    IF "String" \in c.ty THEN "String"
    ELSE IF "Decimal" \in c.ty THEN "Decimal"
    ELSE IF "f64" \in c.ty THEN "f64"
    ELSE IF "f32" \in c.ty THEN "f32"
    ELSE IF "i64" \in c.ty THEN "i64"
    ELSE IF "i32" \in c.ty THEN "i32"
    ELSE IF "bool" \in c.ty THEN "bool"
    ELSE IF "NaiveDateTime" \in c.ty THEN "NaiveDateTime"
    ELSE IF "NaiveDate" \in c.ty THEN "NaiveDate"
    ELSE "none"
\* mod.rs:272-274, 289-293: the ladder ends with ColumnDecodeError when no
\* branch is taken and when the Decimal of the second does not convert.
Decodes(c) ==
    /\ Probe(c) # "none"
    /\ Probe(c) = "Decimal" => "try_into" \in c.ty
\* mod.rs:270-288: the value each branch pushes (f.into() and i.into()
\* widen without changing the value; the text of a date stands for the
\* date as v does).
Decode(c) ==
    CASE Probe(c) \in {"String", "NaiveDateTime", "NaiveDate"} -> SqlText(c.v)
      [] Probe(c) \in {"Decimal", "f64", "f32"} ->
            SqlValue("Float", c.v, c.nan)
      [] Probe(c) \in {"i64", "i32"} -> SqlInt(c.v)
      [] Probe(c) = "bool" -> SqlValue("Bool", c.v, FALSE)

Shapes ==
    {<<c, r>> \in (0..MaxCols) \X (0..MaxCells) : c * r <= MaxCells}
Streams ==
    UNION ({{ResultSet(cs, rws) : cs \in [1..sh[1] -> Names],
                                  rws \in [1..sh[2] -> [1..sh[1] -> Cells]]}
            : sh \in Shapes}
           \cup {{ResultSet(<<n>>, <<<<c>>>>) : n \in Names, c \in ProbeCells}})

\* mod.rs:267 (row.try_get(column.name())): a cell is fetched by the NAME of
\* its column; among equally named columns the driver reads one of them.
ByName(columns, name, which) ==
    LET same == {i \in 1..Len(columns) : columns[i] = name} IN
    IF which = "first" THEN CHOOSE i \in same : \A j \in same : i <= j
                       ELSE CHOOSE i \in same : \A j \in same : j <= i

TakeAll(rows) == rows
\* mod.rs:251: .take(self.max_rows_in_result_set)
Take(rows) ==
    SubSeq(rows, 1, IF Len(rows) < max_rows_in_result_set
                    THEN Len(rows) ELSE max_rows_in_result_set)

IntoInnerWithColumns(columns, rows) == ResultSet(columns, rows)
\* mod.rs:255-265, 298-301: the cell is initialised, with the column names,
\* by the first row; without a row the result set has no columns.
into_inner(columns, rows) ==
    IF rows = <<>> THEN NoResult ELSE ResultSet(columns, rows)

\* mod.rs:255-301: the rows the stream gave are decoded in order, cell by
\* cell; the first row fixes the column list; no row, no columns.  The
\* first cell that does not decode ends the call with ColumnDecodeError of
\* its column's name.
extract(q, which) ==
    LET rows == Take(q.rows)
        n == Len(q.columns)
        get(row, k) == row[ByName(q.columns, q.columns[k], which)]
        bad == {p \in (1..Len(rows)) \X (1..n) : ~Decodes(get(rows[p[1]], p[2]))}
        first == CHOOSE p \in bad :
                    \A o \in bad : p[1] < o[1] \/ (p[1] = o[1] /\ p[2] <= o[2])
    IN  IF bad # {}
        THEN [err |-> "ColumnDecode", column |-> q.columns[first[2]],
              rs |-> NoResult]
        ELSE [err |-> "none", column |-> <<>>,
              rs |-> into_inner(q.columns,
                            [r \in 1..Len(rows) |->
                                [k \in 1..n |-> Decode(get(rows[r], k))]])]

\* ---------------------------------------------------------------- compare
ColumnNormalisation ==
    {"NoNormalization", "SortColumnsByName", "NumberColumnsByOrder"}
RowNormalisation == {"NoNormalization", "SortRows"}

\* mod.rs:141-147: the column normalisation of one result set
NormaliseColumns(rs, col_norm) ==
    IF col_norm = "NumberColumnsByOrder" THEN number_columns(rs)
    ELSE IF col_norm = "SortColumnsByName" THEN sort_columns(rs)
    ELSE Returns(rs)
\* mod.rs:148-151: the row normalisation of one result set
NormaliseRows(rs, row_norm) ==
    IF row_norm = "SortRows" THEN sort_rows(rs) ELSE Returns(rs)

RowsFirst(rs, row_norm, col_norm) ==
    LET r == NormaliseRows(rs, row_norm) IN
    IF r.panic THEN Panic ELSE NormaliseColumns(r.rs, col_norm)
\* mod.rs:141-151: columns first, then rows
Normalise(rs, row_norm, col_norm) ==
    LET c == NormaliseColumns(rs, col_norm) IN
    IF c.panic THEN Panic ELSE NormaliseRows(c.rs, row_norm)

\* mod.rs:141-154: compare from the two executed results on
compare(ra, rb, row_norm, col_norm) ==
    LET a == Normalise(ra, row_norm, col_norm)
        b == Normalise(rb, row_norm, col_norm)
    IN  IF a.panic \/ b.panic
        THEN [panic |-> TRUE, a |-> NoResult, b |-> NoResult, eq |-> FALSE]
        ELSE [panic |-> FALSE, a |-> a.rs, b |-> b.rs,
              eq |-> ResultSetEq(a.rs, b.rs)]

\* The answers compared with a solution's: the same rows, the rows or the
\* columns in another order, one cell different, one row less.
Reverse(s) == [i \in 1..Len(s) |-> s[Len(s) + 1 - i]]
Submissions(q) ==
    {q,
     ResultSet(q.columns, Reverse(q.rows)),
     ResultSet(Reverse(q.columns),
               [r \in 1..Len(q.rows) |-> Reverse(q.rows[r])]),
     ResultSet(q.columns,
               [r \in 1..Len(q.rows) |->
                    [k \in 1..Len(q.rows[r]) |->
                        IF r = 1 /\ k = 1 /\ q.rows[r][k].v # 2
                        THEN Cell({"i64"}, 2, FALSE) ELSE q.rows[r][k]]]),
     ResultSet(q.columns, SubSeq(q.rows, 1, Len(q.rows) - 1))}

CompareInit ==
    /\ DBNew
    /\ NoBatch
    /\ NoProxy
    /\ \E qa \in Streams : \E qb \in Submissions(qa) :
        \E which \in {"first", "last"} :
            compare_call = CompareCall(qa, qb, which)

CompareEndsKeeping(how) ==
    [compare_call EXCEPT !.cpc = "done", !.outcome = how]
\* compare ends: with Ok((result_a, result_b, eq)), with an error of an
\* execution, or by a panic.
CompareEnds(how) ==
    [compare_call EXCEPT !.cpc = "done", !.outcome = how,
                         !.result_a = NoResult]

\* mod.rs:138, 249-301: the execution of query_a ends
CompareExecuteA ==
    /\ cpc = "execute_a"
    /\ LET x == extract(query_a, by_name) IN
       \/ compare_call' = CompareEnds("Execute")
       \/ /\ x.err # "none"
          /\ compare_call' = CompareEnds(x.err)
       \/ /\ x.err = "none"
          /\ compare_call' = [compare_call EXCEPT !.cpc = "execute_b",
                                                  !.result_a = x.rs]
    /\ UNCHANGED <<db_vars, batch_vars, proxy_vars>>

\* mod.rs:139-154: the execution of query_b ends; what follows has no await:
\* the normalisations of both results and their comparison.
CompareExecuteB ==
    /\ cpc = "execute_b"
    /\ LET x == extract(query_b, by_name) IN
       \/ compare_call' = CompareEnds("Execute")
       \/ /\ x.err # "none"
          /\ compare_call' = CompareEnds(x.err)
       \/ /\ x.err = "none"
          /\ \E col_norm \in ColumnNormalisation, row_norm \in RowNormalisation :
                LET c == compare(result_a, x.rs, row_norm, col_norm) IN
                compare_call' =
                    [compare_call EXCEPT
                        !.cpc = "done",
                        !.outcome = IF c.panic THEN "panic" ELSE "Ok",
                        !.column_normalisation = col_norm,
                        !.row_normalisation = row_norm,
                        !.result_a = c.a,
                        !.result_b = c.b,
                        !.eq = c.eq]
    /\ UNCHANGED <<db_vars, batch_vars, proxy_vars>>

CompareNext == CompareExecuteA \/ CompareExecuteB
CompareSpec == CompareInit /\ [][CompareNext]_vars

\* --------------------------------------------------------- the two routes
\* mod.rs:344-354: a SqlExecutionError, with the text of its cause
SqlExecutionError(variant, text) == [variant |-> variant, text |-> text]
NoError == SqlExecutionError("none", "")

ErrToResponseDetailed(e) ==
    [NoResponse EXCEPT
        !.status = IF e.variant \in {"Init", "Execute"} THEN 200 ELSE 500,
        !.location = IF e.variant = "Init" THEN "init"
                     ELSE IF e.variant = "Execute" THEN "query" ELSE "other",
        !.error = e.text]
\* routes.rs:48-75: the response an error is answered with
err_to_response(e) ==
    IF e.variant = "Init"
    THEN [NoResponse EXCEPT !.status = 200, !.location = "init",
                            !.error = e.text]
    ELSE IF e.variant = "Execute"
    THEN [NoResponse EXCEPT !.status = 200, !.location = "query",
                            !.error = e.text]
    ELSE [NoResponse EXCEPT !.status = 500, !.location = "other",
                            !.error = "an internal error occurred"]

\* What one query sent in a request makes DB::execute return: the rows the
\* driver streams for it, or the error the call ends with.
Query(stream, error, text) ==
    [stream |-> stream, error |-> error, text |-> text]
\* mod.rs:83-89: what execute returns once extract returned x
ExecuteReturns(x) ==
    IF x.err # "none"
    THEN [error |-> SqlExecutionError("ColumnDecodeError", ""),
          rs |-> NoResult]
    ELSE [error |-> NoError, rs |-> x.rs]
\* mod.rs:61-90 with include_database_info = false, as compare calls it
execute(q) ==
    IF q.error # "none"
    THEN [error |-> SqlExecutionError(q.error, q.text), rs |-> NoResult]
    ELSE ExecuteReturns(extract(q.stream, "first"))

\* mod.rs:138-139: `?` returns the error of an execution
CompareFails(e) ==
    [panic |-> FALSE, error |-> e, a |-> NoResult, b |-> NoResult,
     eq |-> FALSE]
\* mod.rs:141-154: both executions gave a result
CompareReturns(c) ==
    [panic |-> c.panic, error |-> NoError, a |-> c.a, b |-> c.b, eq |-> c.eq]
\* mod.rs:138-155 for the executions' outcomes xa and xb
CompareOf(xa, xb, row_norm, col_norm) ==
    IF xa.error # NoError THEN CompareFails(xa.error)
    ELSE IF xb.error # NoError THEN CompareFails(xb.error)
    ELSE CompareReturns(compare(xa.rs, xb.rs, row_norm, col_norm))
\* mod.rs:130-155: DB::compare from call to return; query_a is executed
\* first, query_b only when query_a gave a result.
DBCompare(qa, qb, row_norm, col_norm) ==
    CompareOf(execute(qa), execute(qb), row_norm, col_norm)

\* The queries of the requests followed: one column "a" holding 1 then 2,
\* the same rows in the other order, a NULL, and two queries the driver
\* refuses (a syntax error; a failing environment script).
MaxSolutions == 2
OneTwo == ResultSet(<<<<97>>>>, <<<<Cell({"i64"}, 1, FALSE)>>,
                                 <<Cell({"i64"}, 2, FALSE)>>>>)
TwoOne == ResultSet(<<<<97>>>>, <<<<Cell({"i64"}, 2, FALSE)>>,
                                 <<Cell({"i64"}, 1, FALSE)>>>>)
BatchQueries ==
    {Query(OneTwo, "none", ""), Query(TwoOne, "none", ""),
     Query(ResultSet(<<<<97>>>>, <<<<Null>>>>), "none", ""),
     Query(NoResult, "Execute", "syntax error"),
     Query(NoResult, "Init", "relation exists")}
\* routes.rs:133-142: a Solution; the third is the one the defaults
\* (routes.rs:121-131) give.
Solution(q, row_norm, col_norm, ret) ==
    [query |-> q, row_normalisation |-> row_norm,
     column_normalisation |-> col_norm, return_result_set |-> ret]
Solutions ==
    UNION {{Solution(q, "NoNormalization", "NoNormalization", TRUE),
            Solution(q, "SortRows", "NumberColumnsByOrder", TRUE),
            Solution(q, "NoNormalization", "NumberColumnsByOrder", FALSE)}
           : q \in BatchQueries}

BatchInit ==
    /\ DBNew
    /\ NoCompare
    /\ NoProxy
    /\ \E n \in 0..MaxSolutions : \E sols \in [1..n -> Solutions] :
        \E sub \in BatchQueries :
            /\ sub.error # "Init"
            /\ batch_call = BatchCall(sols, sub)

Overwrite(cell, rs) == Some(rs)
\* routes.rs:190-194: the cell is set unless it is initialized already
OnceCellSet(cell, rs) == IF cell.some THEN cell ELSE Some(rs)

\* A collect that keeps the last error of the list.
BatchResponseLastError(outputs, cell) ==
    IF \E i \in 1..Len(outputs) : ~outputs[i].ok
    THEN outputs[CHOOSE i \in 1..Len(outputs) :
                    /\ ~outputs[i].ok
                    /\ \A j \in (i + 1)..Len(outputs) : outputs[j].ok].err
    ELSE [NoResponse EXCEPT
            !.status = 200,
            !.solutions = [i \in 1..Len(outputs) |->
                              [result_set |-> outputs[i].result_set,
                               eq |-> outputs[i].eq]],
            !.submission_result_set = cell]
\* routes.rs:201-208: collect gives the first error in list order, and the
\* handler answers with it; without an error it answers with the solutions
\* and with what the cell holds.
BatchResponse(outputs, cell) ==
    IF \E i \in 1..Len(outputs) : ~outputs[i].ok
    THEN outputs[CHOOSE i \in 1..Len(outputs) :
                    /\ ~outputs[i].ok
                    /\ \A j \in 1..(i - 1) : outputs[j].ok].err
    ELSE [NoResponse EXCEPT
            !.status = 200,
            !.solutions = [i \in 1..Len(outputs) |->
                              [result_set |-> outputs[i].result_set,
                               eq |-> outputs[i].eq]],
            !.submission_result_set = cell]

\* routes.rs:186-189, 195-198: map_err and map on the output c of compare
SolutionOutput(sol, c) ==
    [done |-> TRUE,
     ok |-> c.error = NoError,
     err |-> IF c.error = NoError THEN NoResponse
                                  ELSE err_to_response(c.error),
     result_set |-> IF c.error = NoError /\ sol.return_result_set
                    THEN Some(c.b) ELSE None,
     eq |-> c.eq]
\* routes.rs:190-194: inspect on the output c of compare
Inspect(cell, c) ==
    IF c.error = NoError THEN OnceCellSet(cell, c.a) ELSE cell
\* routes.rs:201-208: join_all goes on waiting, or is ready with outputs
Polled(i, outputs, cell) ==
    [batch_call EXCEPT
        !.completed = outputs,
        !.order = Append(@, i),
        !.submission_result_set = cell,
        !.writes = IF cell # submission_result_set THEN @ + 1 ELSE @,
        !.bpc = IF \A j \in 1..Len(outputs) : outputs[j].done
                THEN "done" ELSE @,
        !.response = IF \A j \in 1..Len(outputs) : outputs[j].done
                     THEN BatchResponse(outputs, cell) ELSE @]
\* routes.rs:176-199: compare returned c for solution i, or panicked
Completion(i, c) ==
    IF c.panic
    THEN [batch_call EXCEPT !.bpc = "panicked"]
    ELSE Polled(i, [completed EXCEPT ![i] = SolutionOutput(solutions[i], c)],
                Inspect(submission_result_set, c))
\* mod.rs:130-155: what DB::compare gives for solution i of the request
Compared(i) ==
    DBCompare(solutions[i].query, submission, solutions[i].row_normalisation,
              solutions[i].column_normalisation)

\* routes.rs:169-208: the comparison of solution i completes; what follows
\* in the same poll has no await: map_err, inspect and map on its output,
\* and, when it was the last one, collect and the response.
BatchCompareCompletes(i) ==
    /\ bpc = "join_all"
    /\ ~completed[i].done
    /\ batch_call' = Completion(i, Compared(i))
    /\ UNCHANGED <<db_vars, compare_vars, proxy_vars>>

\* routes.rs:169-208 with no solution in the body: join_all is ready at its
\* first poll.
BatchCompareEmpty ==
    /\ bpc = "join_all"
    /\ solutions = <<>>
    /\ batch_call' = [batch_call EXCEPT
                        !.bpc = "done",
                        !.response = BatchResponse(<<>>, submission_result_set)]
    /\ UNCHANGED <<db_vars, compare_vars, proxy_vars>>

BatchNext ==
    \/ \E i \in 1..Len(solutions) : BatchCompareCompletes(i)
    \/ BatchCompareEmpty
BatchSpec == BatchInit /\ [][BatchNext]_vars

\* ------------------------------------------------- the persistence proxy
\* Concurrent calls of analyse (api.rs:15-72) whose request carries its
\* solution_results and submission_results, so that the first await a call
\* reaches is the acquire of upstream_proxy.
Callers == 1..NumCallers
\* api.rs:108-116: the awaits of upstream_proxy between the sending of the
\* upstream request and the end of the reading of its answer
Upstream == {"send", "json", "text"}
\* the awaits at which the call owns a permit: those, and the acquire that
\* was granted a permit and waits to be polled
Holding == Upstream \cup {"acquired"}

ProxyInit ==
    /\ DBNew
    /\ NoCompare
    /\ NoBatch
    /\ \E max \in 0..MaxPermits : proxy = AppState(max)

\* api.rs:107: acquire() takes a permit at once when one is left, and the
\* call goes on to send (108-112); else the call is queued.
Acquire(p, c) ==
    IF p.upstream_semaphore > 0
    THEN [p EXCEPT !.upstream_semaphore = @ - 1, !.ppc[c] = "send"]
    ELSE [p EXCEPT !.waiters = Append(@, c), !.ppc[c] = "acquire"]

\* A permit that is forgotten instead of dropped.
ForgetPermit(p, how) == [p EXCEPT !.last_exit = how]
\* api.rs:107, 118: _permit is dropped where upstream_proxy returns or its
\* future is dropped; the permit goes to the acquire queued first, else
\* back to the semaphore.
DropPermit(p, how) ==
    IF p.waiters # <<>>
    THEN [p EXCEPT !.ppc[Head(p.waiters)] = "acquired",
                   !.waiters = Tail(@),
                   !.last_exit = how]
    ELSE [p EXCEPT !.upstream_semaphore = @ + 1, !.last_exit = how]

\* api.rs:44-50, 112-117: upstream_proxy returns by an error, its permit is
\* dropped and analyse answers BAD_GATEWAY; or the future of the call is
\* dropped while it owns a permit.
Leaves(c, how) ==
    [DropPermit(proxy, how) EXCEPT !.ppc[c] = "idle"]

\* api.rs:15-44, 102-107: a call of analyse up to its first await
Analyse(c) ==
    /\ ppc[c] = "idle"
    /\ proxy' = Acquire(proxy, c)
    /\ UNCHANGED <<db_vars, compare_vars, batch_vars>>

\* api.rs:107-112: the call that was handed a permit is polled and sends
AcquireReturns(c) ==
    /\ ppc[c] = "acquired"
    /\ proxy' = [proxy EXCEPT !.ppc[c] = "send"]
    /\ UNCHANGED <<db_vars, compare_vars, batch_vars>>

\* api.rs:108-116: send() returns a response, whose status is a success or
\* not, or a transport error
SendReturns(c) ==
    /\ ppc[c] = "send"
    /\ \/ proxy' = [proxy EXCEPT !.ppc[c] = "json"]
       \/ proxy' = [proxy EXCEPT !.ppc[c] = "text"]
       \/ proxy' = Leaves(c, "transport")
    /\ UNCHANGED <<db_vars, compare_vars, batch_vars>>

\* api.rs:115, 44-64: res.json() returns the results, and analyse goes on
\* to store them, or a decode error
JsonReturns(c) ==
    /\ ppc[c] = "json"
    /\ \/ proxy' = [DropPermit(proxy, "success") EXCEPT !.ppc[c] = "insert"]
       \/ proxy' = Leaves(c, "decode")
    /\ UNCHANGED <<db_vars, compare_vars, batch_vars>>

\* api.rs:116: res.text() returns the body, or a transport error; either
\* way upstream_proxy returns an error
TextReturns(c) ==
    /\ ppc[c] = "text"
    /\ \/ proxy' = Leaves(c, "status")
       \/ proxy' = Leaves(c, "transport")
    /\ UNCHANGED <<db_vars, compare_vars, batch_vars>>

\* api.rs:52-71: the insert returns and analyse answers
InsertReturns(c) ==
    /\ ppc[c] = "insert"
    /\ proxy' = [proxy EXCEPT !.ppc[c] = "idle"]
    /\ UNCHANGED <<db_vars, compare_vars, batch_vars>>

\* The server drops the future of a call whose client went away: a queued
\* acquire leaves the queue, an owned permit is dropped.
Dropped(c) ==
    /\ ppc[c] # "idle"
    /\ proxy' =
        IF ppc[c] = "acquire"
        THEN [proxy EXCEPT
                !.ppc[c] = "idle",
                !.waiters = SelectSeq(@, LAMBDA w : w # c)]
        ELSE IF ppc[c] \in Holding THEN Leaves(c, "dropped")
        ELSE [proxy EXCEPT !.ppc[c] = "idle"]
    /\ UNCHANGED <<db_vars, compare_vars, batch_vars>>

ProxyNext ==
    \E c \in Callers :
        \/ Analyse(c)
        \/ AcquireReturns(c)
        \/ SendReturns(c)
        \/ JsonReturns(c)
        \/ TextReturns(c)
        \/ InsertReturns(c)
        \/ Dropped(c)
ProxySpec == ProxyInit /\ [][ProxyNext]_vars
\* The runtime polls every task it woke: a call that was handed a permit
\* goes on.  Nothing is assumed of the clients or of the upstream service.
ProxyFairness == \A c \in Callers : WF_vars(AcquireReturns(c))
LiveProxySpec == ProxySpec /\ ProxyFairness


\* ------------------------------------------------------------------ claims
Kept(q) ==
    IF Len(q.rows) < max_rows_in_result_set
    THEN Len(q.rows) ELSE max_rows_in_result_set

\* C12: when the first min(M, max_rows_in_result_set) rows of a stream of M
\* rows decode, the execution is no error however many rows follow, and the
\* result set holds exactly min(M, max_rows_in_result_set) rows, the i-th of
\* them made of the i-th streamed row's cells.
C12_RowCap ==
    /\ (\A i \in 1..Kept(query_a), k \in 1..Len(query_a.columns) :
            Decodes(query_a.rows[i][k]))
            => extract(query_a, by_name).err = "none"
    /\ cpc = "execute_b" =>
        /\ Len(result_a.rows) = Kept(query_a)
        /\ \A i \in 1..Len(result_a.rows) :
            /\ Len(result_a.rows[i]) = Len(query_a.columns)
            /\ \A k \in 1..Len(result_a.rows[i]) :
                \E j \in 1..Len(query_a.columns) :
                    /\ query_a.columns[j] = query_a.columns[k]
                    /\ Decodes(query_a.rows[i][j])
                    /\ result_a.rows[i][k] = Decode(query_a.rows[i][j])

C12_Witness ==
    /\ cpc = "execute_b"
    /\ Len(query_a.rows) > max_rows_in_result_set
    /\ Len(result_a.rows) = max_rows_in_result_set
    /\ \E k \in 1..Len(query_a.columns) :
            ~Decodes(query_a.rows[Len(query_a.rows)][k])

Arity(rs) == \A r \in 1..Len(rs.rows) : Len(rs.rows[r]) = Len(rs.columns)

\* C13: every result set an execution returns, and both result sets compare
\* returns under any pair of normalisations, has as many cells in every row
\* as it has columns.
C13_Arity ==
    /\ Arity(result_a) /\ Arity(result_b)
    /\ LET x == extract(query_b, by_name) IN x.err = "none" => Arity(x.rs)

C13_Witness ==
    /\ cpc = "done" /\ outcome = "Ok"
    /\ column_normalisation = "NumberColumnsByOrder"
    /\ row_normalisation = "SortRows"
    /\ Len(result_a.columns) = 2 /\ Len(result_a.rows) = 2
    /\ Len(result_b.columns) = 2 /\ Len(result_b.rows) = 2
    /\ result_a.rows # query_a.rows


\* What the two executions of the compare call under way returned.
ExecutedA == extract(query_a, by_name).rs
ExecutedB == extract(query_b, by_name).rs
Returned == cpc = "done" /\ outcome = "Ok"
HasNaN(rs) ==
    \E r \in 1..Len(rs.rows) : \E k \in 1..Len(rs.rows[r]) : rs.rows[r][k].nan

\* C14: compare returns each executed result with the requested column
\* normalisation applied first and the requested row normalisation second,
\* and equal is true exactly when the two returned result sets have the same
\* column list and the same rows, cell by cell under SqlValue's ==; rows
\* {1, 2} against rows {2, 1} under SortRows and NumberColumnsByOrder are
\* equal.
C14_Norm(rs) ==
    NormaliseRows(NormaliseColumns(rs, column_normalisation).rs,
                  row_normalisation).rs
C14_OneTwo(c, x, y) ==
    ResultSet(<<c>>, <<<<Cell({"i64"}, x, FALSE)>>, <<Cell({"i64"}, y, FALSE)>>>>)
C14_CompareNormalises ==
    Returned =>
        /\ result_a = C14_Norm(ExecutedA)
        /\ result_b = C14_Norm(ExecutedB)
        /\ eq = (/\ result_a.columns = result_b.columns
                 /\ Len(result_a.rows) = Len(result_b.rows)
                 /\ \A r \in 1..Len(result_a.rows) :
                        /\ Len(result_a.rows[r]) = Len(result_b.rows[r])
                        /\ \A k \in 1..Len(result_a.rows[r]) :
                             ValueEq(result_a.rows[r][k], result_b.rows[r][k]))
        /\ (/\ query_a = C14_OneTwo(<<97>>, 1, 2)
            /\ query_b = C14_OneTwo(<<97>>, 2, 1)
            /\ row_normalisation = "SortRows"
            /\ column_normalisation = "NumberColumnsByOrder") => eq

C14_Witness ==
    /\ Returned
    /\ query_a = C14_OneTwo(<<97>>, 1, 2)
    /\ query_b = C14_OneTwo(<<97>>, 2, 1)
    /\ row_normalisation = "SortRows"
    /\ column_normalisation = "NumberColumnsByOrder"
    /\ result_a.columns = <<<<48>>>>
    /\ result_b.rows = <<<<SqlInt(1)>>, <<SqlInt(2)>>>>
    /\ eq

\* C15 as stated: compare of a query with itself returns equal = true
\* whenever both executions succeed, whatever the cells hold.
C15_SelfEqual ==
    (cpc = "done" /\ query_b = query_a /\ outcome \in {"Ok", "panic"})
        => outcome = "Ok" /\ eq

\* C15, amended: compare of a query with itself returns equal = true exactly
\* when no cell of the result is a Float NaN; it ends without a result only
\* under SortRows, with a NaN cell in the result.
C15_SelfEqualUnlessNaN ==
    (cpc = "done" /\ query_b = query_a) =>
        /\ outcome = "Ok" => (eq <=> ~HasNaN(result_a))
        /\ outcome = "panic" =>
                row_normalisation = "SortRows" /\ HasNaN(ExecutedA)

C15_Witness ==
    /\ Returned
    /\ query_b = query_a
    /\ row_normalisation = "SortRows"
    /\ Len(result_a.rows) >= 2
    /\ HasNaN(result_a)
    /\ ~eq

\* C16: compare(e, a, b, n_r, n_c) and compare(e, b, a, n_r, n_c) end the
\* same way and return the same equal.
C16_Symmetric ==
    (cpc = "done" /\ outcome \in {"Ok", "panic"}) =>
        LET swapped == compare(ExecutedB, ExecutedA, row_normalisation,
                               column_normalisation)
        IN  /\ swapped.panic = (outcome = "panic")
            /\ outcome = "Ok" =>
                /\ swapped.eq = eq
                /\ swapped.a = result_b
                /\ swapped.b = result_a

C16_Witness ==
    /\ Returned
    /\ Len(ExecutedA.rows) > Len(ExecutedB.rows)
    /\ Len(ExecutedB.rows) >= 1
    /\ ~eq
    /\ ~compare(ExecutedB, ExecutedA, row_normalisation,
                column_normalisation).eq


\* The result sets of the compare call under way: as executed and, once
\* compare returned, as normalised.
Produced == {result_a, result_b}
\* A result set need not come from extract (the type and its methods are
\* public): the cells of a stream read by position give every result set
\* of the bounds, equally named columns with different cells included.
\* Each is looked at once, where the call starts.
ByPosition(q) ==
    ResultSet(q.columns,
              [r \in 1..Len(q.rows) |->
                  [k \in 1..Len(q.rows[r]) |-> Decode(q.rows[r][k])]])
Subjects ==
    Produced \cup
        IF /\ cpc = "execute_a" /\ query_b = query_a /\ by_name = "first"
           /\ \A r \in 1..Len(query_a.rows) :
                \A k \in 1..Len(query_a.rows[r]) : Decodes(query_a.rows[r][k])
        THEN {ByPosition(query_a)} ELSE {}

\* C17: sort_columns, number_columns and sort_rows are idempotent on result
\* sets that satisfy the arity invariant: a second application returns the
\* columns and rows the first one returned.  (Of the three only sort_rows
\* can end without a result, by its unwrap.)
C17_Twice(once, twice) == ~once.panic => (~twice.panic /\ twice.rs = once.rs)
C17_Idempotent ==
    \A rs \in Subjects :
        /\ Arity(rs)
        /\ C17_Twice(sort_columns(rs), sort_columns(sort_columns(rs).rs))
        /\ C17_Twice(number_columns(rs), number_columns(number_columns(rs).rs))
        /\ C17_Twice(sort_rows(rs), sort_rows(sort_rows(rs).rs))
        /\ ~sort_columns(rs).panic /\ ~number_columns(rs).panic

C17_Witness ==
    /\ cpc = "execute_b"
    /\ Len(result_a.columns) = 2 /\ Len(result_a.rows) = 2
    /\ result_a.columns[1] = result_a.columns[2]
    /\ sort_columns(result_a).rs = result_a
    /\ ~sort_rows(result_a).panic
    /\ sort_rows(result_a).rs # result_a
    /\ number_columns(result_a).rs # result_a

Perms(n) == {p \in [1..n -> 1..n] : \A i, j \in 1..n : p[i] = p[j] => i = j}

\* C18: sort_columns leaves the names in non-decreasing lexicographic
\* order, equally named columns in their former order; every row is
\* permuted as the names are, so each cell stays under its column's name in
\* its row; the rows keep their order.  Columns [b, a] with rows [[1, 2],
\* [3, 4]] become [a, b] with [[2, 1], [4, 3]].
C18_Example ==
    sort_columns(ResultSet(<<<<98>>, <<97>>>>,
                           <<<<SqlInt(1), SqlInt(2)>>,
                             <<SqlInt(3), SqlInt(4)>>>>))
        = Returns(ResultSet(<<<<97>>, <<98>>>>,
                            <<<<SqlInt(2), SqlInt(1)>>,
                              <<SqlInt(4), SqlInt(3)>>>>))
C18_SortColumns ==
    /\ C18_Example
    /\ \A rs \in Subjects :
        LET o == sort_columns(rs).rs
            n == Len(rs.columns)
        IN  /\ ~sort_columns(rs).panic
            /\ Len(o.columns) = n
            /\ Len(o.rows) = Len(rs.rows)
            /\ \A k \in 1..n - 1 :
                    StrCmp(o.columns[k], o.columns[k + 1]) \in {"Less", "Equal"}
            /\ \E p \in Perms(n) :
                /\ \A k \in 1..n : o.columns[k] = rs.columns[p[k]]
                /\ \A k, l \in 1..n :
                    (k < l /\ o.columns[k] = o.columns[l]) => p[k] < p[l]
                /\ \A r \in 1..Len(rs.rows) :
                    /\ Len(o.rows[r]) = n
                    /\ \A k \in 1..n : o.rows[r][k] = rs.rows[r][p[k]]

C18_Witness ==
    /\ Returned
    /\ column_normalisation = "SortColumnsByName"
    /\ row_normalisation = "NoNormalization"
    /\ query_a.columns = <<<<98>>, <<97>>>>
    /\ ExecutedA.rows = <<<<SqlInt(1), SqlInt(2)>>, <<SqlInt(2), SqlInt(2)>>>>
    /\ result_a = ResultSet(<<<<97>>, <<98>>>>,
                            <<<<SqlInt(2), SqlInt(1)>>,
                              <<SqlInt(2), SqlInt(2)>>>>)

Count(rows, x) == Cardinality({i \in 1..Len(rows) : rows[i] = x})

\* C19: when sort_rows returns, the rows are the former rows, each as often
\* as before, in non-decreasing lexicographic order of their cells, and the
\* columns are the former columns.  (It does not return when its unwrap
\* meets two rows that do not compare.)
C19_SortRows ==
    \A rs \in Subjects :
        LET s == sort_rows(rs)
            o == s.rs
        IN  /\ s.panic =>
                \E i, j \in 1..Len(rs.rows) :
                    RowCmp(rs.rows[i], rs.rows[j]) = "None"
            /\ ~s.panic =>
                /\ o.columns = rs.columns
                /\ Len(o.rows) = Len(rs.rows)
                /\ \A i \in 1..Len(rs.rows) :
                        Count(o.rows, rs.rows[i]) = Count(rs.rows, rs.rows[i])
                /\ \A i \in 1..Len(o.rows) - 1 :
                        RowCmp(o.rows[i], o.rows[i + 1]) \in {"Less", "Equal"}

C19_Witness ==
    /\ Returned
    /\ row_normalisation = "SortRows"
    /\ column_normalisation = "NoNormalization"
    /\ Len(ExecutedA.rows) = 3
    /\ result_a.rows # ExecutedA.rows
    /\ result_a.rows[1] = result_a.rows[2]
    /\ result_a.rows[2] # result_a.rows[3]

\* C20: number_columns replaces the column names by the decimal texts of
\* 0 .. n-1 in order and leaves every row as it was.
C20_Decimal ==
    /\ to_string(0) = <<48>>
    /\ to_string(10) = <<49, 48>>
    /\ to_string(123) = <<49, 50, 51>>
C20_NumberColumns ==
    /\ C20_Decimal
    /\ \A rs \in Subjects :
        LET o == number_columns(rs) IN
        /\ ~o.panic
        /\ o.rs.rows = rs.rows
        /\ Len(o.rs.columns) = Len(rs.columns)
        /\ \A k \in 1..Len(rs.columns) :
                k <= 10 => o.rs.columns[k] = <<48 + (k - 1)>>

C20_Witness ==
    /\ Returned
    /\ column_normalisation = "NumberColumnsByOrder"
    /\ row_normalisation = "NoNormalization"
    /\ query_a.columns = <<<<98>>, <<97>>>>
    /\ result_a.columns = <<<<48>>, <<49>>>>
    /\ Len(result_a.rows) = 2
    /\ result_a.rows = ExecutedA.rows

\* ------------------------------------------------- claims on the routes
\* the comparisons that completed with Ok, and the first of them to complete
Succeeded == {i \in 1..Len(solutions) : completed[i].ok}
FirstSucceeded ==
    completion_order[CHOOSE k \in 1..Len(completion_order) :
                        /\ completion_order[k] \in Succeeded
                        /\ \A j \in 1..(k - 1) :
                                completion_order[j] \notin Succeeded]
\* the handler answered with a BatchCompareResponse
Answered == bpc = "done" /\ response.status = 200 /\ response.location = ""

\* C21: the cell submission_result_set is set at most once in a request: it
\* is set exactly when some comparison completed with Ok, it holds what the
\* first comparison to complete with Ok stored, a BatchCompareResponse
\* carries what the cell holds, and without a successful comparison the
\* response carries no submission_result_set.
C21_SetOnce ==
    /\ writes <= 1
    /\ submission_result_set.some <=> Succeeded # {}
    /\ writes = 1 <=> Succeeded # {}
    /\ Succeeded # {} =>
            submission_result_set = Some(Compared(FirstSucceeded).a)
    /\ Answered => response.submission_result_set = submission_result_set
    /\ bpc = "done" /\ Succeeded = {} =>
            ~response.submission_result_set.some
C21_Witness ==
    /\ Answered
    /\ Len(solutions) = 2
    /\ completion_order = <<2, 1>>
    /\ Compared(1).a # Compared(2).a
    /\ writes = 1
    /\ response.submission_result_set = Some(Compared(2).a)

\* the result of query q under the normalisations of solution sol
Normalised(q, sol) ==
    Normalise(execute(q).rs, sol.row_normalisation,
              sol.column_normalisation).rs

\* C22: in a BatchCompareResponse, submission_result_set is the normalised
\* result of the submission query (under the normalisations of one of the
\* solutions), and the result_set of solution i, when its return_result_set
\* is set, is the normalised result of the query of solution i.
C22_Attribution ==
    Answered =>
        /\ response.submission_result_set.some =>
                \E i \in 1..Len(solutions) :
                    response.submission_result_set =
                        Some(Normalised(submission, solutions[i]))
        /\ \A i \in 1..Len(solutions) :
                solutions[i].return_result_set =>
                    response.solutions[i].result_set =
                        Some(Normalised(solutions[i].query, solutions[i]))

\* routes.rs:33-46: the run route answers a failed execute with
\* err_to_response of its error; the driver's text names the await that
\* failed.
RunError(t) == err_to_response(SqlExecutionError(result'[t], pc[t]))
\* execute returns an error to its caller
Fails(t) ==
    /\ pc[t] # "done"
    /\ pc'[t] = "done"
    /\ result'[t] \notin {"Ok", "Cancelled"}

\* C23: an execute call ends with Init only when a statement of the
\* environment script failed and with Execute only when streaming the user
\* query failed; the response to Init is status 200, location "init" and
\* to Execute status 200, location "query", each with the driver's text;
\* every other error (a cell that does not decode; the existence check,
\* the provisioning statements, the connection, the lockdown) is answered
\* with status 500 and the fixed text, not the driver's.
C23_ErrorMapping ==
    [][\A t \in Tasks :
        Fails(t) =>
            /\ result'[t] = "Init" <=> pc[t] = "init_environment"
            /\ result'[t] = "Execute" => pc[t] = "extract"
            /\ result'[t] = "ColumnDecodeError" => pc[t] = "extract"
            /\ result'[t] \in {"Init", "Execute", "ColumnDecodeError",
                                "Other"}
            /\ result'[t] = "Init" =>
                    RunError(t) = [NoResponse EXCEPT !.status = 200,
                                                     !.location = "init",
                                                     !.error = pc[t]]
            /\ result'[t] = "Execute" =>
                    RunError(t) = [NoResponse EXCEPT !.status = 200,
                                                     !.location = "query",
                                                     !.error = pc[t]]
            /\ result'[t] \in {"ColumnDecodeError", "Other"} =>
                    /\ RunError(t).status = 500
                    /\ RunError(t).error = "an internal error occurred"
                    /\ RunError(t).error # pc[t]]_vars
C23_Witness ==
    \E t, u \in Tasks :
        /\ pc[t] = "done" /\ result[t] = "ColumnDecodeError"
        /\ pc[u] = "done" /\ result[u] = "Execute"

\* The order of the probes and the variant each gives.
C24_Order ==
    <<"String", "Decimal", "f64", "f32", "i64", "i32", "bool",
      "NaiveDateTime", "NaiveDate">>
C24_Variant ==
    <<"Text", "Float", "Float", "Float", "Int", "Int", "Bool", "Text", "Text">>
\* the first probe that succeeds on cell c (0: none does)
C24_First(c) ==
    IF \E i \in 1..9 : C24_Order[i] \in c.ty
    THEN CHOOSE i \in 1..9 :
            /\ C24_Order[i] \in c.ty
            /\ \A j \in 1..(i - 1) : C24_Order[j] \notin c.ty
    ELSE 0
C24_Ends(c) ==
    \/ C24_First(c) = 0
    \/ C24_First(c) = 2 /\ "try_into" \notin c.ty
\* the cell read for column k of row r of query_a
C24_Cell(r, k) ==
    query_a.rows[r][ByName(query_a.columns, query_a.columns[k], by_name)]

\* C24: each cell is decoded by the first probe that succeeds in the order
\* string, decimal, f64, f32, i64, i32, bool, date-time, date, as Text,
\* Float, Float, Float, Int, Int, Bool, Text, Text; the first cell (rows in
\* order, columns in order) that no probe decodes, or whose decimal does not
\* convert, ends the execution with ColumnDecodeError of its column's name,
\* whatever later probes would give.
C24_ProbeOrder ==
    LET x == extract(query_a, by_name)
        cells == (1..Kept(query_a)) \X (1..Len(query_a.columns))
        bad == {p \in cells : C24_Ends(C24_Cell(p[1], p[2]))}
    IN  /\ cpc = "execute_a" /\ bad = {} =>
            /\ x.err = "none"
            /\ \A p \in cells :
                  LET c == C24_Cell(p[1], p[2])
                      variant == C24_Variant[C24_First(c)]
                  IN  x.rs.rows[p[1]][p[2]] =
                        [tag |-> variant, v |-> c.v,
                         nan |-> variant = "Float" /\ c.nan]
        /\ cpc = "execute_a" /\ bad # {} =>
            /\ x.err = "ColumnDecode"
            /\ \E p \in bad :
                  /\ x.column = query_a.columns[p[2]]
                  /\ \A o \in bad :
                        p[1] < o[1] \/ (p[1] = o[1] /\ p[2] <= o[2])
        /\ cpc = "execute_b" => x.err = "none" /\ result_a = x.rs
        /\ cpc = "done" /\ outcome = "Ok" => x.err = "none"
        /\ cpc = "done" /\ x.err # "none" =>
                outcome \in {"Execute", "ColumnDecode"}
C24_Witness ==
    /\ cpc = "done"
    /\ outcome = "ColumnDecode"
    /\ Len(query_a.rows) = 1
    /\ query_a.rows[1][1].ty = {"Decimal", "f64"}

\* the database and the user of every pool task t holds
C25_Pools(t) ==
    {p \in {local[t].pool, local[t].conn, local[t].root_conn} : p # NoPool}

\* the identities of the environments: the digest is 64 hex digits, the
\* db_name its first 63, and different environments have different names
\* and passwords
C25_Derivation ==
    \A e, f \in Envs :
        LET ie == identities[e]
            if == identities[f]
        IN  /\ Len(ie.environment_hash) = 64
            /\ Len(ie.db_name) = 63
            /\ \A i \in 1..63 : ie.db_name[i] = ie.environment_hash[i]
            /\ \A i \in 1..64 : ie.environment_hash[i] \in
                    {"0", "1", "2", "3", "4", "5", "6", "7", "8", "9",
                     "a", "b", "c", "d", "e", "f"}
            /\ e = f => ie.db_name = if.db_name /\ ie.password = if.password
            /\ e # f => ie.db_name # if.db_name /\ ie.password # if.password

C26_AThenB ==
    [][/\ cpc = "execute_a" =>
            /\ cpc' \in {"execute_b", "done"}
            /\ cpc' = "execute_b" =>
                    /\ extract(query_a, by_name).err = "none"
                    /\ result_a' = extract(query_a, by_name).rs
                    /\ outcome' = "none"
            /\ cpc' = "done" =>
                    /\ outcome' \in {"Execute", "ColumnDecode"}
                    /\ outcome' = "ColumnDecode" =>
                            extract(query_a, by_name).err = "ColumnDecode"
       /\ cpc = "execute_b" =>
            /\ cpc' = "done"
            /\ outcome' = "ColumnDecode" =>
                    extract(query_b, by_name).err = "ColumnDecode"
            /\ extract(query_b, by_name).err # "none" =>
                    outcome' \in {"Execute", "ColumnDecode"}
       /\ cpc' = "done" /\ outcome' \in {"Execute", "ColumnDecode"} =>
            /\ result_a' = [columns |-> <<>>, rows |-> <<>>]
            /\ result_b' = [columns |-> <<>>, rows |-> <<>>]
            /\ eq' = FALSE]_vars
C26_Witness ==
    /\ cpc = "done"
    /\ outcome = "ColumnDecode"
    /\ extract(query_a, by_name).err = "none"
    /\ extract(query_a, by_name).rs.rows # <<>>

\* C27: the execution of a query that gives no row is the result set
\* without columns and without rows, whatever columns the query has; two
\* such queries compare equal under every pair of normalisations, also
\* when their column lists differ.
C27_ZeroRows ==
    /\ query_a.rows = <<>> /\ cpc = "execute_b" =>
            result_a = [columns |-> <<>>, rows |-> <<>>]
    /\ query_a.rows = <<>> /\ query_b.rows = <<>> /\ cpc = "done" =>
            \/ outcome = "Execute"
            \/ /\ outcome = "Ok"
               /\ result_a = [columns |-> <<>>, rows |-> <<>>]
               /\ result_b = [columns |-> <<>>, rows |-> <<>>]
               /\ eq
C27_Witness ==
    /\ cpc = "done"
    /\ outcome = "Ok"
    /\ query_a = [columns |-> <<<<97>>, <<98>>>>, rows |-> <<>>]
    /\ query_b = [columns |-> <<<<98>>, <<97>>>>, rows |-> <<>>]
    /\ row_normalisation = "SortRows"
    /\ column_normalisation = "NoNormalization"
    /\ eq

\* the pools a get_connection call has opened and not yet returned
C28_Unset ==
    {local[u].pool : u \in {v \in Tasks : pc[v] \in {"get_connection_connect",
                                                      "get_connection_set"}}}
\* task t takes pool p' from a get_connection call that returns
C28_Returned(t, p) ==
    \/ /\ pc[t] = "get_connection_set"
       /\ p = local[t].pool
    \/ /\ pc[t] = "get_connection_lock"
       /\ \E c \in connections : c.pool = p

\* C28: get_connection returns a pool only after SET statement_timeout
\* completed on it (or from the registry, which holds only such pools), so
\* every script statement, lockdown statement and user query runs through
\* a pool that has the setting; when opening the pool or the SET fails,
\* get_connection returns an error and the registry is left as it was.
C28_TimeoutSet ==
    [][/\ \A t \in Tasks :
            /\ local'[t].conn \notin {NoPool, local[t].conn} =>
                    C28_Returned(t, local'[t].conn)
            /\ local'[t].root_conn \notin {NoPool, local[t].root_conn} =>
                    C28_Returned(t, local'[t].root_conn)
            /\ pc[t] \in {"init_environment", "make_database_readonly",
                           "extract"} =>
                    /\ PoolUsing(t) # NoPool
                    /\ PoolUsing(t) \notin C28_Unset
            /\ pc[t] \in {"get_connection_connect", "get_connection_set"}
               /\ pc'[t] = "done" =>
                    /\ connections' = connections
                    /\ result'[t] \in {"Other", "Cancelled"}
       /\ \A c \in connections : c.pool \notin C28_Unset
       /\ connections' # connections =>
            \E t \in Tasks :
                /\ pc[t] = "get_connection_set"
                /\ pc'[t] \notin {"done", "get_connection_set"}
                /\ connections' \ connections =
                        {[key |-> local[t].pool.db, pool |-> local[t].pool]}]_vars
C28_Witness ==
    \E t, u \in Tasks :
        /\ pc[t] = "extract"
        /\ \E c \in connections : c.pool = local[t].conn
        /\ pc[u] = "done" /\ result[u] = "Other"
        /\ call[u].env = call[t].env

\* C29: sort_rows returns for every result set, Float cells that are NaN
\* included, with the rows in non-decreasing order (cells of one variant by
\* payload, of different variants Bool < Int < Float < Text), and compare
\* never ends by a panic.
C29_SortRowsReturns ==
    /\ outcome # "panic"
    /\ \A rs \in Subjects :
          LET s == sort_rows(rs) IN
          /\ ~s.panic
          /\ \A i \in 1..Len(s.rs.rows) - 1 :
                RowCmp(s.rs.rows[i], s.rs.rows[i + 1]) \in {"Less", "Equal"}

\* C30: every key of the registry is a database name without user part, so
\* the registry holds at most one entry for a database whatever the users
\* of the pools; no lookup finds an entry, and a get_connection call for a
\* database that has an entry puts its newly opened pool in that entry's
\* place, whatever the user of either pool.
C30_KeyedByDatabase ==
    [][/\ \A c \in connections' :
            /\ c.key \in DbNames
            /\ \A i \in 1..Len(c.key) : c.key[i] # "@"
            /\ c.key = c.pool.db
            /\ \A d \in connections' : d.key = c.key => d = c
       /\ \A t \in Tasks :
            /\ pc[t] = "get_connection_lock" /\ pc'[t] \notin {pc[t], "done"} =>
                    pc'[t] = "get_connection_connect"
            /\ pc[t] = "get_connection_set" /\ pc'[t] \notin {pc[t], "done"} =>
                    /\ [key |-> local[t].pool.db, pool |-> local[t].pool]
                            \in connections'
                    /\ \A c \in connections :
                            c.key = local[t].pool.db => c \notin connections'
                    /\ \A c \in connections :
                            c.key # local[t].pool.db => c \in connections']_vars
C30_Witness ==
    \E c \in connections : \E t \in Tasks :
        /\ c.pool.user = RootUser
        /\ c.key = c.pool.db
        /\ local[t].conn # NoPool
        /\ local[t].conn.db = c.key
        /\ local[t].conn.user # RootUser

\* C31: the pool through which execute sends the user query was opened as
\* the role of the call's environment, never as root, also while the
\* registry holds, under that database's key, the pool create_db opened as
\* root.
C31_QueryAsEnvRole ==
    \A t \in Tasks :
        pc[t] = "extract" =>
            /\ local[t].conn # NoPool
            /\ local[t].conn.user = DbName(call[t].env)
            /\ local[t].conn.user # RootUser
            /\ local[t].conn.db = DbName(call[t].env)
C31_Witness ==
    \E t \in Tasks : \E c \in connections :
        /\ pc[t] = "extract"
        /\ call[t].query = "CREATE TABLE"
        /\ c.key = DbName(call[t].env)
        /\ c.pool.user = RootUser
        /\ local[t].conn.user = DbName(call[t].env)
        /\ \E i \in 1..Len(issued) : issued[i].task # t

\* C32: for every row the driver gave and every column position k, the k-th
\* cell of the decoded row is the decoding of the value of the driver row's
\* k-th column, also when columns of the query carry the same name.
C32_CellOfColumn ==
    cpc = "execute_a" =>
        LET x == extract(query_a, by_name) IN
        x.err = "none" =>
            \A r \in 1..Len(x.rs.rows) : \A k \in 1..Len(query_a.columns) :
                /\ Decodes(query_a.rows[r][k])
                /\ x.rs.rows[r][k] = Decode(query_a.rows[r][k])

\* The comparisons of the request that end with an error.
Failed == {i \in 1..Len(solutions) : Compared(i).error # NoError}

\* C33: batch_compare answers only when every comparison has completed; when
\* all succeeded the answer lists one entry per solution of the request, in
\* the request's order, with a result set exactly in the entries that set
\* return_result_set; when one failed the answer is the error mapping of the
\* failed comparison with the lowest index, without solutions and without a
\* result set.
C33_AllOrNothing ==
    /\ response # NoResponse =>
            /\ bpc = "done"
            /\ \A i \in 1..Len(solutions) : completed[i].done
    /\ bpc = "done" /\ Failed = {} =>
            /\ response.status = 200
            /\ response.location = ""
            /\ Len(response.solutions) = Len(solutions)
            /\ \A i \in 1..Len(solutions) :
                  /\ response.solutions[i].eq = Compared(i).eq
                  /\ response.solutions[i].result_set.some
                        = solutions[i].return_result_set
    /\ bpc = "done" /\ Failed # {} =>
            LET low == CHOOSE i \in Failed : \A j \in Failed : i <= j IN
            /\ response = err_to_response(Compared(low).error)
            /\ response.location \in {"init", "query", "other"}
            /\ response.solutions = <<>>
            /\ response.submission_result_set = None

C33_Witness ==
    /\ bpc = "done"
    /\ Len(solutions) = 2
    /\ Failed = {1, 2}
    /\ completion_order = <<2, 1>>
    /\ err_to_response(Compared(1).error) # err_to_response(Compared(2).error)
    /\ response = err_to_response(Compared(1).error)

C33_WitnessAllSucceed ==
    /\ bpc = "done"
    /\ Len(solutions) = 2
    /\ Failed = {}
    /\ completion_order = <<2, 1>>
    /\ response.solutions[1].eq # response.solutions[2].eq
    /\ response.solutions[1].result_set.some
    /\ ~response.solutions[2].result_set.some

\* ------------------------------------------- claims on the persistence proxy
\* the calls whose upstream request is under way, and those owning a permit
Sending == {c \in Callers : ppc[c] \in Upstream}
Owners == {c \in Callers : ppc[c] \in Holding}
\* no more upstream requests under way than upstream_max_concurrent, and
\* every permit is either left in the semaphore or owned by one call
C34_Bound ==
    /\ Cardinality(Sending) <= upstream_max_concurrent
    /\ upstream_semaphore + Cardinality(Owners) = upstream_max_concurrent
    /\ upstream_semaphore >= 0
    /\ waiters # <<>> => upstream_semaphore = 0
    /\ \A c \in Callers :
          ppc[c] = "acquire" <=> \E i \in 1..Len(waiters) : waiters[i] = c
\* a call that waits for a permit comes to send its request, or is dropped
C34_Proceeds ==
    \A c \in Callers : (ppc[c] = "acquire") ~> (ppc[c] \in {"send", "idle"})
\* every upstream request ends: by an answer, by an error, or with its call
C34_RequestsEnd ==
    \A c \in Callers : []<>(ppc[c] \notin Upstream)

\* C34 as stated: at most upstream_max_concurrent upstream requests are
\* under way at any time, and every call that waits for a permit eventually
\* proceeds.
C34_AsStated == []C34_Bound /\ C34_Proceeds

\* C34: at most upstream_max_concurrent upstream requests are under way at
\* any time across all analyse calls, every exit of upstream_proxy (success,
\* error status, transport or decode error, drop of the call) returns its
\* permit, and, when upstream_max_concurrent is at least 1 and every
\* upstream request ends, every call that waits for a permit eventually
\* proceeds.
C34_Permits ==
    /\ []C34_Bound
    /\ (upstream_max_concurrent >= 1 /\ C34_RequestsEnd) => C34_Proceeds

C34_Witness ==
    /\ upstream_max_concurrent = 2
    /\ upstream_semaphore = 0
    /\ Cardinality(Sending) = 1
    /\ \E c \in Callers : ppc[c] = "acquired"
    /\ last_exit = "decode"
====
